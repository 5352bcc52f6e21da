----------------------- MODULE WorkflowExecutorProofs -----------------------
(***************************************************************************)
(* What WorkflowExecutor guarantees about decisions and about the order of *)
(* steps, for any DAG, any number of calls in progress at once and any     *)
(* number of crashes: a decision is answered at most once, a reasoning     *)
(* step is recorded as completed only on an answered decision, and a level *)
(* starts over settled steps.                                              *)
(***************************************************************************)
EXTENDS WorkflowExecutorTypes

Decided(s) == store.decisions[s] \in {"resolved", "expired"}

-----------------------------------------------------------------------------
(* The decisions table. *)

AnswersKept ==
  \A s \in Steps : store.decisions[s] \notin {"none", "pending"}
                     => store'.decisions[s] = store.decisions[s]

LEMMA CallKeepsAnswers ==
  ASSUME Typed, NEW c \in Calls, CallStep(c)
  PROVE  AnswersKept
<1>1. store \in StoreType
  BY DEF Typed, TypeOK
<1>2. CASE SignalApply(c)
  BY <1>1, <1>2 DEF SignalApply, StoreType, AnswersKept
<1>3. CASE \E s \in Steps : ResumeExpire(c, s)
  BY <1>1, <1>3 DEF ResumeExpire, StoreType, AnswersKept
<1>4. CASE ~(SignalApply(c) \/ \E s \in Steps : ResumeExpire(c, s))
  <2>1. CASE \/ RunUpdate(c) \/ SuspendWorkflow(c) \/ CancelUpdate(c)
             \/ RunInitSteps(c) \/ ResumeActivate(c) \/ FinishUpdate(c)
    BY <1>1, <2>1
    DEF RunUpdate, SuspendWorkflow, CancelUpdate, RunInitSteps, ResumeActivate,
        FinishUpdate, StoreType, AnswersKept
  <2>2. CASE \/ ContextError(c) \/ CancelEvent(c) \/ ResumeExpireEvent(c)
             \/ ResumeExpireFail(c) \/ CancelSteps(c) \/ FinishEvent(c)
    BY <1>1, <2>2
    DEF ContextError, CancelEvent, ResumeExpireEvent, ResumeExpireFail,
        CancelSteps, FinishEvent, StoreType, AnswersKept
  <2>3. CASE UNCHANGED store
    BY <2>3 DEF AnswersKept
  <2> QED
    BY <1>4, <2>1, <2>2, <2>3, Zenon
    DEF CallStep, RunRegister, BeginLevel, EndLevels, LevelDone, Submit,
        RejectSubmit, Unregister, ResumeLoad, ResumeReplay, ResumeList,
        ResumeRegister, CancelRun
<1> QED
  BY <1>2, <1>3, <1>4

LEMMA TaskKeepsAnswers ==
  ASSUME Typed, NEW c \in Calls, NEW g \in Steps, TaskStep(c, g)
  PROVE  AnswersKept
<1>1. store \in StoreType /\ task[c][g].step \in Steps
  BY TaskFacts DEF Typed, TypeOK
<1>2. CASE CreateDecision(c, g) /\ ~HandleFailure(c, g)
  BY <1>1, <1>2 DEF CreateDecision, StoreType, AnswersKept
<1>3. ASSUME HandleFailure(c, g) \/ TaskError(c, g)
      PROVE  AnswersKept
  BY <1>1, <1>3
  DEF HandleFailure, Retry, GiveUp, FailStep, TaskError, StoreType, AnswersKept
<1>4. CASE StepStart(c, g) \/ Persist(c, g) \/ Backoff(c, g) \/ Complete(c, g)
  BY <1>1, <1>3, <1>4
  DEF StepStart, Persist, Backoff, Complete, StoreType, AnswersKept
<1>5. CASE \/ ActionSucceeds(c, g) \/ ActionFails(c, g) \/ ActionPanics(c, g)
           \/ ReasonLookup(c, g) \/ SuspendStep(c, g)
  <2>1. HandleFailure(c, g) \/ UNCHANGED store
    BY <1>5 DEF ActionSucceeds, ActionFails, ActionPanics, ReasonLookup, SuspendStep
  <2>2. CASE UNCHANGED store
    BY <2>2 DEF AnswersKept
  <2> QED
    BY <1>3, <2>1, <2>2
<1>6. CASE RequestDecision(c, g) \/ SkipStep(c, g)
  BY <1>1, <1>3, <1>6 DEF RequestDecision, SkipStep, StoreType, AnswersKept
<1> QED
  BY <1>2, <1>3, <1>4, <1>5, <1>6 DEF TaskStep

LEMMA NextKeepsAnswers == Typed /\ [Next]_vars => AnswersKept
<1> SUFFICES ASSUME Typed, [Next]_vars PROVE AnswersKept
  OBVIOUS
<1>1. store \in StoreType
  BY DEF Typed, TypeOK
<1>2. ASSUME NEW c \in Calls, Arrivals(c) PROVE AnswersKept
  <2>1. UNCHANGED store \/ \E s \in Steps : PanelResolve(c, s)
    BY <1>2, Zenon DEF Arrivals, Run, CancelLoad, Signal
  <2>2. ASSUME NEW s \in Steps, PanelResolve(c, s) PROVE AnswersKept
    <3>1. /\ store.decisions[s] = "pending"
          /\ store' = [store EXCEPT !.decisions[s] = "resolved"]
      BY <2>2 DEF PanelResolve
    <3> QED
      BY <1>1, <3>1 DEF StoreType, AnswersKept
  <2>3. CASE UNCHANGED store
    BY <2>3 DEF AnswersKept
  <2> QED
    BY <2>1, <2>2, <2>3
<1>3. CASE Environment \/ Finished \/ UNCHANGED vars
  <2>1. UNCHANGED store \/ CrashRestart
    BY <1>3, Zenon
    DEF Environment, Finished, vars, Deadline, StepDeadline, DecisionOverdue,
        ContextCancelled
  <2> QED
    BY <1>1, <2>1 DEF CrashRestart, StoreType, AnswersKept
<1> QED
  BY <1>2, <1>3, CallKeepsAnswers, TaskKeepsAnswers DEF Next

\* A decision is answered, cancelled or expired once and for all: the guarded
\* updates of the decisions table (libsql.go:561-586) suffice against any
\* interleaving of signals, panel, resumptions and restarts.
THEOREM DecisionsAreFinal == Spec => DecisionFinal
<1>1. Typed /\ [Next]_vars =>
        [\A s \in Steps : store.decisions[s] \notin {"none", "pending"}
                            => store'.decisions[s] = store.decisions[s]]_vars
  BY NextKeepsAnswers DEF AnswersKept
<1> QED
  BY <1>1, InitTyped, NextTyped, PTL DEF Spec, DecisionFinal

-----------------------------------------------------------------------------
(* Reasoning steps complete on decisions. *)

\* The reasoning steps that no on_error strategy completes.
Answered == Reasoning \ IgnoreErrors

\* A call remembers a reasoning step as completed only with its decision.
MemDecided ==
  \A c \in Calls, s \in Answered : call[c].mem[s] = "completed" => Decided(s)

\* So does a goroutine that is about to complete one.
ReadyDecided ==
  \A c \in Calls, g \in Steps :
    TaskAt(c, g, "complete") /\ task[c][g].step \in Reasoning
      => Decided(task[c][g].step)

RInv == ReasonedCompletion /\ MemDecided /\ ReadyDecided

\* Since an answer is kept, it is enough that what a step of the system newly
\* records as completed is answered before the step.
LEMMA AnswerFirst ==
  ASSUME Typed, AnswersKept,
         \A s \in Answered :
           "completed" \in {store'.log[s], store'.steps[s]} => Decided(s),
         \A c \in Calls, s \in Answered :
           call'[c].mem[s] = "completed" => Decided(s),
         \A c \in Calls, g \in Steps :
           task'[c][g].pc = "complete" /\ task'[c][g].step \in Reasoning
             => task'[c][g].step \in Steps /\ Decided(task'[c][g].step)
  PROVE  RInv'
<1>1. \A s \in Steps : Decided(s) => Decided(s)'
  BY DEF AnswersKept, Decided
<1>2. ReasonedCompletion'
  BY <1>1, ConstantsAssumption DEF ReasonedCompletion, Decided, Answered
<1>3. MemDecided'
  BY <1>1, ConstantsAssumption DEF MemDecided, Answered
<1>4. ReadyDecided'
  BY <1>1 DEF ReadyDecided, TaskAt
<1> QED
  BY <1>2, <1>3, <1>4 DEF RInv

LEMMA InitAnswered == Init => RInv
<1> SUFFICES ASSUME Init PROVE RInv
  OBVIOUS
<1>1. ReasonedCompletion
  <2>1. \A s \in Steps : store.log[s] = "pending" /\ store.steps[s] = None
    BY DEF Init
  <2>2. None # "completed"
    BY ConstantsAssumption DEF StepStatuses
  <2> QED
    BY <2>1, <2>2, ConstantsAssumption DEF ReasonedCompletion
<1>2. MemDecided
  <2>1. None # "completed"
    BY ConstantsAssumption DEF StepStatuses
  <2> QED
    BY <2>1, ConstantsAssumption DEF Init, IdleCall, MemDecided, Answered
<1>3. ReadyDecided
  BY DEF Init, IdleTask, ReadyDecided, TaskAt
<1> QED
  BY <1>1, <1>2, <1>3 DEF RInv

-----------------------------------------------------------------------------

LEMMA CallAnswers ==
  ASSUME Typed, RInv, AnswersKept, NEW c \in Calls, CallStep(c)
  PROVE  RInv'
<1>1. /\ store \in StoreType /\ call \in CallTable /\ task \in TaskTable
      /\ Answered \subseteq Steps
  BY Tables, ConstantsAssumption DEF Typed, Answered
<1>2. None # "completed"
  BY ConstantsAssumption DEF StepStatuses
<1>3. \A s \in Answered :
        "completed" \in {store.log[s], store.steps[s]} => Decided(s)
  BY DEF RInv, ReasonedCompletion, Answered, Decided
<1>4. ASSUME NEW s \in Steps
      PROVE  /\ store'.log[s] \in {store.log[s], "failed", "skipped"}
             /\ store'.steps[s] \in {store.steps[s], "pending", "skipped"}
  <2>1. CASE \/ RunUpdate(c) \/ SuspendWorkflow(c) \/ CancelUpdate(c)
             \/ RunInitSteps(c) \/ ResumeActivate(c) \/ FinishUpdate(c)
    BY <1>1, <2>1
    DEF RunUpdate, SuspendWorkflow, CancelUpdate, RunInitSteps, ResumeActivate,
        FinishUpdate, StoreType
  <2>2. CASE ContextError(c) \/ CancelEvent(c)
    <3>1. UNCHANGED store.log \/ store'.log = SkipLog(call[c].mem)
      BY <1>1, <2>2 DEF ContextError, CancelEvent, StoreType
    <3>2. UNCHANGED store.steps
      BY <1>1, <2>2 DEF ContextError, CancelEvent, StoreType
    <3> QED
      BY <3>1, <3>2 DEF SkipLog
  <2>3. CASE ResumeExpireEvent(c) \/ ResumeExpireFail(c) \/ FinishEvent(c)
    BY <1>1, <2>3 DEF ResumeExpireEvent, ResumeExpireFail, FinishEvent, StoreType
  <2>4. CASE CancelSteps(c)
    BY <1>1, <2>4 DEF CancelSteps, StoreType
  <2>5. CASE SignalApply(c) \/ \E u \in Steps : ResumeExpire(c, u)
    BY <1>1, <2>5 DEF SignalApply, ResumeExpire, StoreType
  <2>6. CASE UNCHANGED store
    BY <2>6
  <2> QED
    BY <2>1, <2>2, <2>3, <2>4, <2>5, <2>6, Zenon
    DEF CallStep, RunRegister, BeginLevel, EndLevels, LevelDone, Submit,
        RejectSubmit, Unregister, ResumeLoad, ResumeReplay, ResumeList,
        ResumeRegister, CancelRun
<1>5. ASSUME NEW d \in Calls
      PROVE  call'[d].mem \in {call[d].mem, store.log, IdleCall.mem}
  <2> DEFINE Kept == call'[d].mem \in {call[d].mem, store.log, IdleCall.mem}
  <2>0. \A o : Return(c, o) => Kept
    BY <1>1 DEF IdleCall, Returned, Return, CallTable
  <2>1. RunUpdate(c) => Kept
    BY <1>1 DEF RunUpdate, CallTable, CallType
  <2>2. RunInitSteps(c) => Kept
    BY <1>1 DEF RunInitSteps, CallTable, CallType
  <2>3. RunRegister(c) => Kept
    BY <1>1 DEF RunRegister, CallTable, CallType
  <2>4. BeginLevel(c) => Kept
    BY <1>1 DEF BeginLevel, CallTable, CallType
  <2>5. SuspendWorkflow(c) => Kept
    BY <1>1 DEF SuspendWorkflow, CallTable, CallType
  <2>6. FinishEvent(c) => Kept
    BY <1>1 DEF FinishEvent, CallTable, CallType
  <2>7. FinishUpdate(c) => Kept
    BY <1>1 DEF FinishUpdate, CallTable, CallType
  <2>8. ResumeReplay(c) => Kept
    BY <1>1 DEF ResumeReplay, CallTable, CallType
  <2>9. ResumeList(c) => Kept
    BY <1>1 DEF ResumeList, CallTable, CallType
  <2>10. ResumeExpireEvent(c) => Kept
    BY <1>1 DEF ResumeExpireEvent, CallTable, CallType
  <2>11. ResumeActivate(c) => Kept
    BY <1>1 DEF ResumeActivate, CallTable, CallType
  <2>12. CancelEvent(c) => Kept
    BY <1>1 DEF CancelEvent, CallTable, CallType
  <2>13. CancelUpdate(c) => Kept
    BY <1>1 DEF CancelUpdate, CallTable, CallType
  <2>14. CancelSteps(c) => Kept
    BY <1>1 DEF CancelSteps, CallTable, CallType
  <2>15. EndLevels(c) => Kept
    <3>1. EndLevels(c) =>
            \/ call' = [call EXCEPT ![c].pc = "ctx_error"]
            \/ call' = [call EXCEPT ![c].pc = "finish_event",
                                    ![c].verdict = "completed"]
      BY DEF EndLevels
    <3>2. call' = [call EXCEPT ![c].pc = "ctx_error"] => Kept
      BY <1>1 DEF CallTable, CallType
    <3>3. call' = [call EXCEPT ![c].pc = "finish_event",
                               ![c].verdict = "completed"]
            => Kept
      BY <1>1 DEF CallTable, CallType
    <3> QED
      BY <3>1, <3>2, <3>3
  <2>16. LevelDone(c) => Kept
    <3>1. LevelDone(c) =>
            \/ call' = [call EXCEPT ![c].pc = "ctx_error"]
            \/ call' = [call EXCEPT ![c].pc = "finish_event",
                                    ![c].verdict = "failed"]
            \/ call' = [call EXCEPT ![c].pc = "suspend"]
            \/ call' = [call EXCEPT ![c].pc = "level", ![c].level = @ + 1]
      BY DEF LevelDone
    <3>2. \A x : call' = [call EXCEPT ![c].pc = x] => Kept
      BY <1>1 DEF CallTable, CallType
    <3>3. call' = [call EXCEPT ![c].pc = "finish_event",
                               ![c].verdict = "failed"]
            => Kept
      BY <1>1 DEF CallTable, CallType
    <3>4. call' = [call EXCEPT ![c].pc = "level", ![c].level = @ + 1] => Kept
      BY <1>1 DEF CallTable, CallType
    <3> QED
      BY <3>1, <3>2, <3>3, <3>4
  <2>17. ContextError(c) => Kept
    BY <1>1 DEF ContextError, CallTable, CallType
  <2>18. ASSUME NEW u \in Steps, Submit(c, u) PROVE Kept
    BY <1>1, <2>18 DEF Submit, CallTable, CallType
  <2>19. ASSUME NEW u \in Steps, RejectSubmit(c, u) PROVE Kept
    BY <1>1, <2>19 DEF RejectSubmit, CallTable, CallType
  <2>20. ASSUME NEW u \in Steps, ResumeExpire(c, u) PROVE Kept
    BY <1>1, <2>20 DEF ResumeExpire, CallTable, CallType
  <2>21. SignalApply(c) => Kept
    <3>1. SignalApply(c) =>
            \/ \E o : Return(c, o)
            \/ call' = [call EXCEPT ![c].pc = "resume_load", ![c].outcome = "ok"]
      BY DEF SignalApply
    <3>2. call' = [call EXCEPT ![c].pc = "resume_load", ![c].outcome = "ok"]
            => Kept
      BY <1>1 DEF CallTable, CallType
    <3> QED
      BY <2>0, <3>1, <3>2
  <2>22. ResumeLoad(c) => Kept
    BY <1>1, <2>0 DEF ResumeLoad, CallTable, CallType
  <2>23. ResumeRegister(c) => Kept
    <3>1. ResumeRegister(c) =>
            \/ \E o : Return(c, o)
            \/ call' = [call EXCEPT ![c].pc = "level", ![c].ctx = "live",
                                    ![c].level = 1]
      BY DEF ResumeRegister
    <3>2. call' = [call EXCEPT ![c].pc = "level", ![c].ctx = "live",
                               ![c].level = 1]
            => Kept
      BY <1>1 DEF CallTable, CallType
    <3> QED
      BY <2>0, <3>1, <3>2
  <2>24. CancelRun(c) => Kept
    BY <1>1 DEF CancelRun, IdleCall, Returned, CallTable, CallType
  <2>25. (Unregister(c) \/ ResumeExpireFail(c)) => Kept
    BY <2>0 DEF Unregister, ResumeExpireFail
  <2> QED
    BY <2>1, <2>2, <2>3, <2>4, <2>5, <2>6, <2>7, <2>8, <2>9, <2>10, <2>11, <2>12, <2>13, <2>14, <2>15, <2>16, <2>17, <2>18, <2>19, <2>20, <2>21, <2>22, <2>23, <2>24, <2>25, Zenon DEF CallStep
<1>6. \A d \in Calls, g \in Steps :
        task'[d][g].pc = "complete" =>
          task'[d][g] = task[d][g]
  <2>1. CASE \E s \in Steps : Submit(c, s)
    BY <1>1, <2>1 DEF Submit, IdleTask, TaskTable
  <2>2. CASE task' = task
    BY <2>2
  <2> QED
    BY <2>1, <2>2, CallKeepsTasks
<1>7. \A s \in Answered :
        "completed" \in {store'.log[s], store'.steps[s]} => Decided(s)
  BY <1>1, <1>3, <1>4
<1>8. \A d \in Calls, s \in Answered :
        call'[d].mem[s] = "completed" => Decided(s)
  BY <1>1, <1>2, <1>3, <1>5 DEF RInv, MemDecided, IdleCall
<1>9. \A d \in Calls, g \in Steps :
        task'[d][g].pc = "complete" /\ task'[d][g].step \in Reasoning
          => task'[d][g].step \in Steps /\ Decided(task'[d][g].step)
  BY <1>1, <1>6 DEF RInv, ReadyDecided, TaskAt, TaskTable, TaskType
<1> QED
  BY <1>7, <1>8, <1>9, AnswerFirst

LEMMA ArrivalAnswers ==
  ASSUME Typed, RInv, AnswersKept, NEW c \in Calls, Arrivals(c)
  PROVE  RInv'
<1>1. /\ store \in StoreType /\ call \in CallTable /\ task \in TaskTable
      /\ Answered \subseteq Steps
  BY Tables, ConstantsAssumption DEF Typed, Answered
<1>2. None # "completed"
  BY ConstantsAssumption DEF StepStatuses
<1>3. \A s \in Answered :
        "completed" \in {store.log[s], store.steps[s]} => Decided(s)
  BY DEF RInv, ReasonedCompletion, Answered, Decided
<1>4. /\ store'.log = store.log /\ store'.steps = store.steps /\ task' = task
  BY <1>1 DEF Arrivals, Run, CancelLoad, PanelResolve, Signal, StoreType
<1>5. ASSUME NEW d \in Calls
      PROVE  call'[d].mem \in {call[d].mem, store.steps, IdleCall.mem,
                               [s \in Steps |-> "pending"]}
  <2>1. CASE Run(c)
    BY <1>1, <2>1 DEF Run, CallTable, CallType
  <2>2. CASE CancelLoad(c)
    BY <1>1, <2>2 DEF CancelLoad, CallTable, CallType
  <2>3. ASSUME NEW s \in Steps, PanelResolve(c, s)
        PROVE  call'[d].mem = call[d].mem
    <3>1. call' = [call EXCEPT ![c].pc = "done", ![c].kind = "panel",
                               ![c].target = s, ![c].outcome = "ok"]
      BY <2>3 DEF PanelResolve
    <3> QED
      BY <1>1, <3>1 DEF CallTable, CallType
  <2>4. ASSUME NEW s \in Steps, NEW k \in Kinds, Signal(c, k, s)
        PROVE  call'[d].mem \in {call[d].mem, IdleCall.mem}
    <3> DEFINE f == [call EXCEPT ![running].inbox = @ + 1]
    <3>1. \E r : /\ r.mem = IdleCall.mem
                 /\ call' = [call EXCEPT ![c] = r] \/ call' = [f EXCEPT ![c] = r]
      BY <2>4 DEF Signal, IdleCall
    <3>2. f[d].mem = call[d].mem /\ DOMAIN f = Calls
      BY <1>1 DEF CallTable, CallType
    <3> HIDE DEF f
    <3> QED
      BY <1>1, <3>1, <3>2 DEF CallTable
  <2> QED
    BY <1>1, <2>1, <2>2, <2>3, <2>4 DEF Arrivals
<1>6. \A d \in Calls, s \in Answered :
        call'[d].mem[s] = "completed" => Decided(s)
  BY <1>1, <1>2, <1>3, <1>5 DEF RInv, MemDecided, IdleCall
<1>7. \A d \in Calls, g \in Steps :
        task'[d][g].pc = "complete" /\ task'[d][g].step \in Reasoning
          => task'[d][g].step \in Steps /\ Decided(task'[d][g].step)
  BY <1>1, <1>4 DEF RInv, ReadyDecided, TaskAt, TaskTable, TaskType
<1>8. \A s \in Answered :
        "completed" \in {store'.log[s], store'.steps[s]} => Decided(s)
  BY <1>3, <1>4
<1> QED
  BY <1>6, <1>7, <1>8, AnswerFirst

\* A failing step is recorded as completed only when its errors are ignored.
LEMMA FailureCompletes ==
  ASSUME TypeOK, NEW c \in Calls, NEW g \in Steps,
         HandleFailure(c, g) \/ TaskError(c, g)
  PROVE  /\ \A u \in Steps \ IgnoreErrors :
              /\ store'.log[u] = "completed" => store.log[u] = "completed"
              /\ call'[c].mem[u] = "completed" => call[c].mem[u] = "completed"
         /\ store'.steps = store.steps
         /\ \A d \in Calls, h \in Steps :
              task'[d][h].pc = "complete" => task'[d][h] = task[d][h]
<1> DEFINE s == task[c][g].step
<1>1. /\ call \in CallTable /\ task \in TaskTable /\ store \in StoreType
      /\ s \in Steps
  BY TaskFacts DEF TypeOK
<1>2. /\ \A u \in Steps \ IgnoreErrors :
           store'.log[u] = "completed" => store.log[u] = "completed"
      /\ store'.steps = store.steps
  <2>1. CASE TaskError(c, g)
    BY <2>1 DEF TaskError
  <2>2. CASE Retry(c, g) /\ ~TaskError(c, g)
    <3>1. store' = [store EXCEPT !.log[s] = "retrying", !.retries[s] = @ + 1]
      BY <2>2 DEF Retry
    <3> QED
      BY <1>1, <3>1 DEF StoreType
  <2>3. CASE GiveUp(c, g)
    <3>1. \/ UNCHANGED store
          \/ s \in IgnoreErrors /\ store' = [store EXCEPT !.log[s] = "completed"]
          \/ store' = [store EXCEPT !.log[s] = IF Dead(c, g) THEN @ ELSE "failed"]
      BY <2>3 DEF GiveUp, FailStep
    <3> QED
      BY <1>1, <3>1 DEF StoreType
  <2> QED
    BY <2>1, <2>2, <2>3 DEF HandleFailure
<1>3. \A u \in Steps \ {s} : call'[c].mem[u] = call[c].mem[u]
  BY FrameOfFailure
<1>4. s \notin IgnoreErrors /\ call'[c].mem[s] = "completed"
        => call[c].mem[s] = "completed"
  <2>1. CASE TaskError(c, g)
    BY <1>1, <2>1 DEF TaskError, CallTable, CallType
  <2>2. CASE Retry(c, g) /\ ~TaskError(c, g)
    <3>1. call' = [call EXCEPT ![c].mem[s] = "retrying",
                               ![c].retries[s] = @ + 1]
      BY <2>2 DEF Retry
    <3> QED
      BY <1>1, <3>1 DEF CallTable, CallType
  <2>3. CASE GiveUp(c, g)
    <3>1. s \notin IgnoreErrors => call' = [call EXCEPT ![c].mem[s] = "failed"]
      BY <2>3 DEF GiveUp, FailStep
    <3> QED
      BY <1>1, <3>1 DEF CallTable, CallType
  <2> QED
    BY <2>1, <2>2, <2>3 DEF HandleFailure
<1>5. \E l \in {"idle", "persist_retrying", "persist_fallback", "persist_end",
                "persist_failed"} : TaskGoto(c, g, l)
  BY DEF HandleFailure, Retry, GiveUp, FailStep, TaskError
<1>6. \A d \in Calls, h \in Steps :
        task'[d][h].pc = "complete" => task'[d][h] = task[d][h]
  <2>1. PICK l : l # "complete" /\ task' = [task EXCEPT ![c][g].pc = l]
    BY <1>5 DEF TaskGoto
  <2> QED
    BY <1>1, <2>1 DEF TaskTable, TaskType
<1> QED
  BY <1>2, <1>3, <1>4, <1>6

\* A goroutine that goes on to any other point but the completion.
LEMMA GoesOn ==
  ASSUME TypeOK, NEW c \in Calls, NEW g \in Steps,
         NEW l, l # "complete", TaskGoto(c, g, l)
  PROVE  \A d \in Calls, h \in Steps :
           task'[d][h].pc = "complete" => task'[d][h] = task[d][h]
BY TaskFacts DEF TaskGoto, TaskTable, TaskType

LEMMA TaskAnswers ==
  ASSUME Typed, RInv, AnswersKept, NEW c \in Calls, NEW g \in Steps,
         TaskStep(c, g)
  PROVE  RInv'
<1> DEFINE s == task[c][g].step
           Fails == HandleFailure(c, g) \/ TaskError(c, g)
<1>1. /\ TypeOK /\ store \in StoreType /\ call \in CallTable
      /\ task \in TaskTable /\ s \in Steps /\ Answered \subseteq Steps
      /\ Answered = Reasoning \ IgnoreErrors
  BY TaskFacts, ConstantsAssumption DEF Typed, TypeOK, Answered
<1>2. \A u \in Answered :
        /\ "completed" \in {store.log[u], store.steps[u]} => Decided(u)
        /\ call[c].mem[u] = "completed" => Decided(u)
  BY DEF RInv, ReasonedCompletion, MemDecided, Answered, Decided
<1>3. TaskAt(c, g, "complete") /\ s \in Reasoning => Decided(s)
  BY <1>1 DEF RInv, ReadyDecided
<1>4. \A u \in Answered : store'.log[u] = "completed" => Decided(u)
  <2>1. CASE Fails
    BY <1>1, <1>2, <2>1, FailureCompletes
  <2>2. CASE Complete(c, g) /\ ~Fails
    BY <1>1, <1>2, <1>3, <2>2 DEF Complete, StoreType
  <2>3. CASE ~Complete(c, g) /\ ~Fails
    <3>1. \/ store'.log = store.log
          \/ \E x \in {"running", "suspended", "skipped"} :
               store' = [store EXCEPT !.log[s] = x]
      BY <1>1, <2>3
      DEF TaskStep, StepStart, Persist, Backoff, ActionSucceeds, ActionFails,
          ActionPanics, ReasonLookup, CreateDecision, RequestDecision,
          SuspendStep, SkipStep, StoreType
    <3> QED
      BY <1>1, <1>2, <3>1 DEF StoreType
  <2> QED
    BY <2>1, <2>2, <2>3
<1>5. \A u \in Answered : store'.steps[u] = "completed" => Decided(u)
  <2>1. CASE Fails
    BY <1>1, <1>2, <2>1, FailureCompletes
  <2>2. CASE Persist(c, g)
    BY <1>1, <1>2, <2>2 DEF Persist, StoreType
  <2>3. CASE ~Persist(c, g) /\ ~Fails
    <3>1. store'.steps = store.steps
      BY <1>1, <2>3
      DEF TaskStep, StepStart, Complete, Backoff, ActionSucceeds, ActionFails,
          ActionPanics, ReasonLookup, CreateDecision, RequestDecision,
          SuspendStep, SkipStep, StoreType
    <3> QED
      BY <1>2, <3>1
  <2> QED
    BY <2>1, <2>2, <2>3
<1>6. \A d \in Calls, u \in Answered :
        call'[d].mem[u] = "completed" => Decided(u)
  <2>1. \A d \in Calls, u \in Answered :
          d # c \/ u # s => call'[d].mem[u] = call[d].mem[u]
    BY <1>1, FrameOfTask
  <2>2. s \in Answered /\ call'[c].mem[s] = "completed" => Decided(s)
    <3>1. CASE Fails
      BY <1>1, <1>2, <3>1, FailureCompletes
    <3>2. CASE Complete(c, g) /\ ~Fails
      BY <1>1, <1>2, <1>3, <3>2 DEF Complete
    <3>3. CASE StepStart(c, g)
      <4>1. CASE Dead(c, g)
        BY <1>1, <1>2, <3>3, <4>1 DEF StepStart, CallTable, CallType
      <4>2. CASE ~Dead(c, g)
        BY <1>1, <3>3, <4>2 DEF StepStart, CallTable, CallType
      <4> QED
        BY <4>1, <4>2
    <3>4. CASE Persist(c, g)
      <4>1. UNCHANGED call \/ call' = [call EXCEPT ![c].errs = @ \cup {g}]
        BY <3>4 DEF Persist
      <4> QED
        BY <1>1, <1>2, <4>1, ZenonT(40) DEF CallTable, CallType
    <3>5. CASE ~(StepStart(c, g) \/ Persist(c, g) \/ Complete(c, g) \/ Fails)
      <4>1. \/ UNCHANGED call
            \/ \E x \in {"running", "suspended", "skipped"} :
                 call' = [call EXCEPT ![c].mem[s] = x]
        BY <3>5
        DEF TaskStep, Backoff, ActionSucceeds, ActionFails, ActionPanics,
            ReasonLookup, CreateDecision, RequestDecision, SuspendStep, SkipStep
      <4> QED
        BY <1>1, <1>2, <4>1 DEF CallTable, CallType
    <3> QED
      BY <3>1, <3>2, <3>3, <3>4, <3>5
  <2> QED
    BY <1>1, <2>1, <2>2 DEF RInv, MemDecided
<1> DEFINE Kept == \A d \in Calls, h \in Steps :
                     task'[d][h].pc = "complete" => task'[d][h] = task[d][h]
           Ready == \A d \in Calls, h \in Steps :
                      task'[d][h].pc = "complete"
                        /\ task'[d][h].step \in Reasoning
                        => /\ task'[d][h].step \in Steps
                           /\ Decided(task'[d][h].step)
<1>7. Ready
  <2>1. Kept => Ready
    BY <1>1 DEF RInv, ReadyDecided, TaskAt, TaskTable, TaskType
  <2>2. CASE Fails
    BY <1>1, <2>1, <2>2, FailureCompletes
  <2>3. ASSUME TaskGoto(c, g, "complete"), s \in Reasoning => Decided(s)
        PROVE  Ready
    <3>1. \A d \in Calls, h \in Steps :
            task'[d][h] = IF d = c /\ h = g THEN [task[c][g] EXCEPT !.pc = "complete"]
                          ELSE task[d][h]
      BY <1>1, <2>3 DEF TaskGoto, TaskTable
    <3> QED
      BY <1>1, <2>3, <3>1 DEF RInv, ReadyDecided, TaskAt, TaskTable, TaskType
  <2>4. CASE ActionSucceeds(c, g) /\ ~Fails
    BY <2>3, <2>4 DEF ActionSucceeds
  <2>5. CASE ReasonLookup(c, g) /\ ~Fails
    <3>1. store.decisions[s] \in Decisions
      BY <1>1 DEF StoreType
    <3>2. \/ TaskGoto(c, g, "complete") /\ Decided(s)
          \/ \E l \in {"skip_step", "suspend_step", "create"} : TaskGoto(c, g, l)
      BY <2>5, <3>1 DEF ReasonLookup, Decisions, Decided
    <3> QED
      BY <1>1, <2>1, <2>3, <3>2, GoesOn
  <2>6. CASE Persist(c, g)
    <3>1. task' = [task EXCEPT ![c][g].pc = AfterPersist[@],
                     ![c][g].step = IF TaskAt(c, g, "persist_fallback")
                                    THEN Fallback[s] ELSE s]
      BY <2>6 DEF Persist
    <3>2. AfterPersist[task[c][g].pc] # "complete"
      BY <2>6 DEF Persist, AfterPersist
    <3>3. Kept
      BY <1>1, <3>1, <3>2 DEF TaskTable, TaskType
    <3> QED
      BY <2>1, <3>3
  <2>7. CASE ~(ActionSucceeds(c, g) \/ ReasonLookup(c, g) \/ Persist(c, g) \/ Fails)
    <3>1. \E l \in {"idle", "persist_running", "reexec", "persist_end", "request",
                    "suspend_step"} : TaskGoto(c, g, l)
      BY <2>7
      DEF TaskStep, StepStart, Backoff, Complete, ActionFails, ActionPanics,
          CreateDecision, RequestDecision, SuspendStep, SkipStep
    <3> QED
      BY <1>1, <2>1, <3>1, GoesOn
  <2> QED
    BY <2>2, <2>4, <2>5, <2>6, <2>7
<1> HIDE DEF Kept, Ready
<1>8. \A u \in Answered :
        "completed" \in {store'.log[u], store'.steps[u]} => Decided(u)
  BY <1>4, <1>5
<1> QED
  BY <1>6, <1>7, <1>8, AnswerFirst DEF Ready

\* Time and crashes answer nothing and record nothing as completed.
LEMMA EnvironmentAnswers ==
  ASSUME Typed, RInv, AnswersKept, Environment \/ Finished \/ UNCHANGED vars
  PROVE  RInv'
<1>1. /\ store \in StoreType /\ call \in CallTable /\ task \in TaskTable
      /\ Answered \subseteq Steps
  BY Tables, ConstantsAssumption DEF Typed, Answered
<1>2. None # "completed"
  BY ConstantsAssumption DEF StepStatuses
<1>3. store'.log = store.log /\ store'.steps = store.steps
  <2>1. UNCHANGED store \/ CrashRestart
    BY Zenon
    DEF Environment, Finished, vars, Deadline, StepDeadline, DecisionOverdue,
        ContextCancelled
  <2> QED
    BY <1>1, <2>1 DEF CrashRestart, StoreType
<1>4. \A d \in Calls : call'[d].mem \in {call[d].mem, IdleCall.mem}
  <2>1. CASE Deadline
    BY <1>1, <2>1 DEF Deadline, CallTable, CallType
  <2>2. CASE CrashRestart
    BY <2>2 DEF CrashRestart, Returned, IdleCall
  <2>3. ASSUME NEW c \in Calls, ContextCancelled(c)
        PROVE  \A d \in Calls : call'[d].mem = call[d].mem
    <3>1. call' = [call EXCEPT ![c].ctx = "cancelled"]
      BY <2>3 DEF ContextCancelled
    <3> QED
      BY <1>1, <3>1 DEF CallTable, CallType
  <2>4. CASE UNCHANGED call
    BY <2>4
  <2>5. \/ Deadline \/ CrashRestart \/ UNCHANGED call
        \/ \E c \in Calls : ContextCancelled(c)
    BY Zenon DEF Environment, Finished, vars, StepDeadline, DecisionOverdue
  <2> QED
    BY <2>1, <2>2, <2>3, <2>4, <2>5
<1>5. \A d \in Calls, h \in Steps :
        task'[d][h].pc = "complete" =>
          task[d][h].pc = "complete" /\ task'[d][h].step = task[d][h].step
  <2>1. CASE CrashRestart
    BY <2>1 DEF CrashRestart, IdleTask
  <2>2. ASSUME NEW c \in Calls, NEW g \in Steps, StepDeadline(c, g)
        PROVE  \A d \in Calls, h \in Steps :
                 task'[d][h].pc = task[d][h].pc
                 /\ task'[d][h].step = task[d][h].step
    <3>1. task' = [task EXCEPT ![c][g].dead = TRUE]
      BY <2>2 DEF StepDeadline
    <3> QED
      BY <1>1, <3>1 DEF TaskTable, TaskType
  <2>3. CASE UNCHANGED task
    BY <2>3
  <2>4. \/ CrashRestart \/ UNCHANGED task
        \/ \E c \in Calls, g \in Steps : StepDeadline(c, g)
    BY Zenon
    DEF Environment, Finished, vars, Deadline, ContextCancelled, DecisionOverdue
  <2> QED
    BY <2>1, <2>2, <2>3, <2>4
<1>6. \A d \in Calls, s \in Answered :
        call'[d].mem[s] = "completed" => Decided(s)
  BY <1>1, <1>2, <1>4 DEF RInv, MemDecided, IdleCall
<1>7. \A d \in Calls, g \in Steps :
        task'[d][g].pc = "complete" /\ task'[d][g].step \in Reasoning
          => task'[d][g].step \in Steps /\ Decided(task'[d][g].step)
  BY <1>1, <1>5 DEF RInv, ReadyDecided, TaskAt, TaskTable, TaskType
<1>8. \A s \in Answered :
        "completed" \in {store'.log[s], store'.steps[s]} => Decided(s)
  BY <1>3 DEF RInv, ReasonedCompletion, Answered, Decided
<1> QED
  BY <1>6, <1>7, <1>8, AnswerFirst

LEMMA NextAnswers == Typed /\ RInv /\ [Next]_vars => RInv'
<1> SUFFICES ASSUME Typed, RInv, [Next]_vars PROVE RInv'
  OBVIOUS
<1>1. AnswersKept
  BY NextKeepsAnswers
<1> QED
  BY <1>1, CallAnswers, ArrivalAnswers, TaskAnswers, EnvironmentAnswers DEF Next

\* A reasoning step is recorded as completed only on a decision that was
\* resolved (executor.go:928-946), for any DAG, any number of concurrent and
\* duplicate runs, retries, replays and crashes.
THEOREM ReasonedOnly == Spec => []ReasonedCompletion
<1>1. Init => Typed /\ RInv
  BY InitTyped, InitAnswered
<1>2. Typed /\ RInv /\ [Next]_vars => (Typed /\ RInv)'
  BY NextTyped, NextAnswers
<1>3. RInv => ReasonedCompletion
  BY DEF RInv
<1> QED
  BY <1>1, <1>2, <1>3, PTL DEF Spec

-----------------------------------------------------------------------------
(* A level starts over settled steps.  A goroutine that ends with nothing   *)
(* recorded would break this: one whose action panics, and one whose error  *)
(* is ignored under a step timeout that has passed.  So would a fallback    *)
(* that runs a step of an earlier level again.                              *)

LevelsAreSafe ==
  /\ MayPanic = {}
  /\ IgnoreErrors = {} \/ TimedSteps = {}
  /\ \A s \in Steps : Fallback[s] # None => Level[Fallback[s]] >= Level[s]

\* Labels of a call that has not entered executeDAG and runs the first level.
EntryLabels == {"idle", "run_update", "run_init", "run_register"}

Settled(status) == IsTerminalStep(status) \/ status = "suspended"

\* Where a goroutine has left its step as the level will find it.
AtRest == {"idle", "persist_end", "persist_failed", "persist_fallback"}

Covered(r, t, s) ==
  \/ s \in r.todo \/ Settled(r.mem[s])
  \/ \E h \in Steps : t[h].pc \notin AtRest /\ t[h].step = s

\* What holds of a call r and its goroutines t.
LowerSettled(r) ==
  r.pc \in InDag => \A s \in Steps : Level[s] < r.level => IsTerminalStep(r.mem[s])

OfThisLevel(r, t) ==
  r.pc = "submit" =>
    /\ \A s \in r.errs \cup r.todo : Level[s] = r.level
    /\ \A s \in r.todo : t[s].pc = "idle"

LevelCovered(r, t) ==
  r.pc = "submit" /\ r.ctx = "live" /\ r.errs = {} =>
    \A s \in Steps : Level[s] = r.level => Covered(r, t, s)

Working(r, t) ==
  \A g \in Steps :
    /\ t[g].pc # "idle" => /\ r.pc = "submit" /\ Level[g] = r.level
                           /\ Level[t[g].step] >= r.level
    /\ t[g].dead => TimedSteps # {}

Ordered(r, t) ==
  /\ r.pc \in EntryLabels => r.level = 1
  /\ LowerSettled(r) /\ OfThisLevel(r, t) /\ LevelCovered(r, t) /\ Working(r, t)

LevelInv == \A c \in Calls : Ordered(call[c], task[c])

LEMMA LevelFacts == \A s \in Steps : Level[s] \in Nat /\ Level[s] >= 1
BY ConstantsAssumption

LEMMA InitOrdered == Init => LevelInv
BY LevelFacts DEF Init, IdleCall, IdleTask, LevelInv, Ordered, EntryLabels, LowerSettled,
   InDag, OfThisLevel, LevelCovered, Working

\* A call that keeps where it is and what it has done, or is cancelled.
LEMMA StaysOrdered ==
  ASSUME NEW r, NEW q, NEW t, Ordered(r, t),
         q.pc = r.pc, q.level = r.level, q.mem = r.mem, q.todo = r.todo,
         q.errs = r.errs, q.ctx = "live" => r.ctx = "live"
  PROVE  Ordered(q, t)
BY DEF Ordered, LowerSettled, OfThisLevel, LevelCovered, Working, Covered

\* A call that is not in executeDAG has no goroutines, and those of one that
\* leaves it have ended.
LEMMA OutsideOrdered ==
  ASSUME NEW r, NEW q, NEW t, Ordered(r, t),
         \A g \in Steps : t[g].pc = "idle",
         q.pc \notin InDag, q.pc \in EntryLabels => q.level = 1
  PROVE  Ordered(q, t)
BY DEF Ordered, LowerSettled, OfThisLevel, LevelCovered, Working, InDag

LEMMA NoGoroutines ==
  ASSUME LevelInv, NEW c \in Calls, call[c].pc # "submit"
  PROVE  \A g \in Steps : task[c][g].pc = "idle"
BY DEF LevelInv, Ordered, Working

\* The step of one call leaves the others as they are.
LEMMA OthersOrdered ==
  ASSUME LevelInv, NEW c \in Calls, Ordered(call'[c], task'[c]),
         \A d \in Calls \ {c} :
           /\ task'[d] = task[d]
           /\ call'[d] = call[d]
  PROVE  LevelInv'
BY DEF LevelInv

-----------------------------------------------------------------------------

LEMMA OutsideDag ==
  ASSUME Typed, LevelInv, NEW c \in Calls, task' = task,
         call[c].pc # "submit",
         \A d \in Calls \ {c} : call'[d] = call[d],
         call'[c].pc \notin InDag, call'[c].pc \in EntryLabels => call'[c].level = 1
  PROVE  LevelInv'
<1>1. Ordered(call[c], task[c])
  BY DEF LevelInv
<1>2. Ordered(call'[c], task[c])
  BY <1>1, NoGoroutines, OutsideOrdered
<1> QED
  BY <1>2, OthersOrdered

\* A call that starts its first level.
LEMMA EntersDag ==
  ASSUME Typed, LevelInv, NEW c \in Calls, task' = task,
         call[c].pc # "submit",
         \A d \in Calls \ {c} : call'[d] = call[d],
         call'[c].pc = "level", call'[c].level = 1
  PROVE  LevelInv'
<1>1. Ordered(call[c], task[c]) /\ \A g \in Steps : task[c][g].pc = "idle"
  BY NoGoroutines DEF LevelInv
<1>2. Ordered(call'[c], task[c])
  BY <1>1, LevelFacts
  DEF Ordered, LowerSettled, OfThisLevel, LevelCovered, Working, EntryLabels
<1> QED
  BY <1>2, OthersOrdered

LEMMA RunOrdered ==
  ASSUME Typed, LevelInv, NEW c \in Calls,
         Run(c) \/ RunUpdate(c) \/ RunInitSteps(c) \/ RunRegister(c)
  PROVE  LevelInv'
<1>1. call \in CallTable
  BY Tables DEF Typed
<1>2. call[c].pc \in EntryLabels => call[c].level = 1
  BY DEF LevelInv, Ordered
<1>3. CASE Run(c)
  BY <1>1, <1>2, <1>3, OutsideDag
  DEF Run, Arrive, EntryLabels, InDag, CallTable, CallType
<1>4. CASE RunUpdate(c) \/ RunInitSteps(c)
  BY <1>1, <1>2, <1>4, OutsideDag
  DEF RunUpdate, RunInitSteps, At, EntryLabels, InDag, CallTable, CallType
<1>5. CASE RunRegister(c)
  BY <1>1, <1>2, <1>5, EntersDag, SMTT(30)
  DEF RunRegister, At, EntryLabels, CallTable, CallType
<1> QED
  BY <1>3, <1>4, <1>5

LEMMA BeginLevelOrdered ==
  ASSUME Typed, LevelInv, NEW c \in Calls, BeginLevel(c)
  PROVE  LevelInv'
<1> DEFINE r == call[c]
           q == call'[c]
           t == task[c]
<1>1. call \in CallTable
  BY Tables DEF Typed
<1>2. /\ r.pc = "level" /\ q.pc = "submit" /\ q.level = r.level /\ q.mem = r.mem
      /\ q.errs = {} /\ q.todo = {s \in LevelSteps(c) : ~IsTerminalStep(r.mem[s])}
      /\ \A d \in Calls \ {c} : call'[d] = call[d]
      /\ task' = task
  BY <1>1 DEF BeginLevel, At, CallTable, CallType
<1>3. Ordered(r, t) /\ \A g \in Steps : t[g].pc = "idle"
  BY <1>2, NoGoroutines DEF LevelInv
<1>4. Ordered(q, t)
  <2>1. LowerSettled(q)
    BY <1>2, <1>3 DEF Ordered, LowerSettled, InDag
  <2>2. OfThisLevel(q, t)
    BY <1>2, <1>3 DEF OfThisLevel, LevelSteps
  <2>3. LevelCovered(q, t)
    BY <1>2 DEF LevelCovered, Covered, Settled, LevelSteps
  <2>4. Working(q, t)
    BY <1>3 DEF Ordered, Working
  <2> QED
    BY <1>2, <2>1, <2>2, <2>3, <2>4 DEF Ordered, EntryLabels
<1> QED
  BY <1>2, <1>4, OthersOrdered

LEMMA LevelDoneOrdered ==
  ASSUME Typed, LevelInv, NEW c \in Calls, LevelDone(c)
  PROVE  LevelInv'
<1> DEFINE r == call[c]
           q == call'[c]
           t == task[c]
<1>1. call \in CallTable
  BY Tables DEF Typed
<1>2. Ordered(r, t)
  BY DEF LevelInv
<1>3. /\ r.pc = "submit" /\ r.todo = {} /\ task' = task
      /\ \A g \in Steps : t[g].pc = "idle"
  BY DEF LevelDone, At, TaskAt
<1>4. CASE /\ r.ctx = "live"
           /\ {g \in r.errs : r.mem[g] # "suspended"} = {}
           /\ {s \in LevelSteps(c) : r.mem[s] = "suspended"} = {}
           /\ call' = [call EXCEPT ![c].pc = "level", ![c].level = @ + 1]
  <2>1. /\ q.pc = "level" /\ q.level = r.level + 1 /\ q.mem = r.mem /\ r.level \in Nat
        /\ \A d \in Calls \ {c} : call'[d] = call[d]
        /\ r.errs \subseteq Steps
    BY <1>1, <1>4 DEF CallTable, CallType
  <2>2. r.errs = {}
    BY <1>2, <1>3, <1>4, <2>1 DEF Ordered, OfThisLevel, LevelSteps
  <2>3. \A s \in Steps : Level[s] = r.level => IsTerminalStep(r.mem[s])
    BY <1>2, <1>3, <1>4, <2>2
    DEF Ordered, LevelCovered, Covered, AtRest, Settled, LevelSteps
  <2>4. LowerSettled(q)
    BY <1>2, <1>3, <2>1, <2>3, LevelFacts DEF Ordered, LowerSettled, InDag
  <2>5. Ordered(q, t)
    BY <1>2, <1>3, <2>1, <2>4
    DEF Ordered, OfThisLevel, LevelCovered, Working, EntryLabels
  <2> QED
    BY <1>3, <2>1, <2>5, OthersOrdered
<1>5. CASE \/ call' = [call EXCEPT ![c].pc = "ctx_error"]
           \/ call' = [call EXCEPT ![c].pc = "finish_event",
                                   ![c].verdict = "failed"]
           \/ call' = [call EXCEPT ![c].pc = "suspend"]
  <2>1. /\ q.pc \in {"ctx_error", "finish_event", "suspend"}
        /\ \A d \in Calls \ {c} : call'[d] = call[d]
    BY <1>1, <1>5 DEF CallTable, CallType
  <2>2. Ordered(q, t)
    BY <1>2, <1>3, <2>1, OutsideOrdered DEF InDag, EntryLabels
  <2> QED
    BY <1>3, <2>1, <2>2, OthersOrdered
<1> QED
  BY <1>4, <1>5 DEF LevelDone

LEMMA SubmitOrdered ==
  ASSUME Typed, LevelInv, NEW c \in Calls, NEW s \in Steps,
         Submit(c, s) \/ RejectSubmit(c, s)
  PROVE  LevelInv'
<1> DEFINE r == call[c]
           q == call'[c]
           t == task[c]
           u == task'[c]
<1>1. call \in CallTable /\ task \in TaskTable
  BY Tables DEF Typed
<1>2. Ordered(r, t) /\ r.pc = "submit" /\ s \in r.todo
  BY DEF LevelInv, Submit, RejectSubmit, At
<1>3. CASE Submit(c, s)
  <2>1. /\ q.pc = "submit" /\ q.level = r.level /\ q.mem = r.mem /\ q.ctx = r.ctx
        /\ q.errs = r.errs /\ q.todo = r.todo \ {s}
        /\ \A d \in Calls \ {c} : call'[d] = call[d]
    BY <1>1, <1>2, <1>3 DEF Submit, CallTable, CallType
  <2>2. /\ \A h \in Steps \ {s} : u[h] = t[h]
        /\ u[s].pc = "start" /\ u[s].step = s /\ ~u[s].dead
        /\ \A d \in Calls \ {c} : task'[d] = task[d]
    BY <1>1, <1>3 DEF Submit, IdleTask, TaskTable
  <2>3. Level[s] = r.level /\ t[s].pc = "idle"
    BY <1>2 DEF Ordered, OfThisLevel
  <2>4. LowerSettled(q) /\ OfThisLevel(q, u)
    <3>1. q.todo \subseteq Steps
      BY <1>1, <2>1 DEF CallTable, CallType
    <3> QED
      BY <1>2, <2>1, <2>2, <3>1 DEF Ordered, LowerSettled, OfThisLevel
  <2>5. LevelCovered(q, u)
    <3> SUFFICES ASSUME q.ctx = "live", q.errs = {}, NEW x \in Steps, Level[x] = q.level
                 PROVE  Covered(q, u, x)
      BY DEF LevelCovered
    <3>1. Covered(r, t, x)
      BY <1>2, <2>1 DEF Ordered, LevelCovered
    <3>2. CASE x = s
      BY <2>2, <3>2 DEF Covered, AtRest
    <3>3. CASE x # s
      <4>1. CASE x \in r.todo \/ Settled(r.mem[x])
        BY <2>1, <3>3, <4>1 DEF Covered
      <4>2. ASSUME NEW h \in Steps, t[h].pc \notin AtRest, t[h].step = x
            PROVE  Covered(q, u, x)
        BY <2>2, <2>3, <4>2 DEF Covered, AtRest
      <4> QED
        BY <3>1, <4>1, <4>2 DEF Covered
    <3> QED
      BY <3>2, <3>3
  <2>6. Working(q, u)
    <3>1. Level[s] >= r.level
      BY <2>3, LevelFacts
    <3> QED
      BY <1>2, <2>1, <2>2, <2>3, <3>1 DEF Ordered, Working
  <2>7. Ordered(q, u)
    BY <2>1, <2>4, <2>5, <2>6 DEF Ordered, EntryLabels
  <2> QED
    BY <2>1, <2>2, <2>7, OthersOrdered
<1>4. CASE RejectSubmit(c, s)
  <2>1. /\ q.pc = "submit" /\ q.level = r.level /\ q.mem = r.mem /\ q.ctx # "live"
        /\ q.errs = r.errs \cup {s} /\ q.todo = r.todo \ {s} /\ task' = task
        /\ \A d \in Calls \ {c} : call'[d] = call[d]
    BY <1>1, <1>2, <1>4 DEF RejectSubmit, CallTable, CallType
  <2>2. Ordered(q, t)
    BY <1>2, <2>1
    DEF Ordered, LowerSettled, OfThisLevel, LevelCovered, Working, EntryLabels
  <2> QED
    BY <2>1, <2>2, OthersOrdered
<1> QED
  BY <1>3, <1>4

\* Every other step of a call keeps it outside executeDAG, or takes it there
\* to the first level.
LEMMA OtherCallOrdered ==
  ASSUME Typed, LevelInv, NEW c \in Calls,
         \/ EndLevels(c) \/ SuspendWorkflow(c) \/ ContextError(c)
         \/ FinishEvent(c) \/ FinishUpdate(c) \/ Unregister(c)
         \/ SignalApply(c)
         \/ ResumeLoad(c) \/ ResumeReplay(c) \/ ResumeList(c)
         \/ \E s \in Steps : ResumeExpire(c, s)
         \/ ResumeExpireEvent(c) \/ ResumeExpireFail(c)
         \/ ResumeActivate(c) \/ ResumeRegister(c)
         \/ CancelEvent(c) \/ CancelUpdate(c) \/ CancelSteps(c)
  PROVE  LevelInv'
<1> DEFINE Others == \A d \in Calls \ {c} : call'[d] = call[d]
           Out == Others /\ call'[c].pc \notin InDag \cup EntryLabels
<1>1. call \in CallTable
  BY Tables DEF Typed
<1>2. task' = task /\ call[c].pc # "submit"
  BY Zenon
  DEF EndLevels, SuspendWorkflow, ContextError, FinishEvent, FinishUpdate,
      Unregister, SignalApply, ResumeLoad, ResumeReplay, ResumeList,
      ResumeExpire, ResumeExpireEvent, ResumeExpireFail, ResumeActivate,
      ResumeRegister, CancelEvent, CancelUpdate, CancelSteps, At
<1>3. \A o : Return(c, o) => Out
  BY <1>1, ReturnedIsDone DEF Return, CallTable, InDag, EntryLabels
<1>4. Out => LevelInv'
  BY <1>2, OutsideDag
<1>5. CASE EndLevels(c)
  <2>1. \/ call' = [call EXCEPT ![c].pc = "ctx_error"]
        \/ call' = [call EXCEPT ![c].pc = "finish_event",
                                ![c].verdict = "completed"]
    BY <1>5 DEF EndLevels
  <2>2. Out
    BY <1>1, <2>1 DEF CallTable, CallType, InDag, EntryLabels
  <2> QED
    BY <1>4, <2>2
<1>6. CASE SuspendWorkflow(c) \/ ContextError(c)
  <2>1. Out
    BY <1>1, <1>6
    DEF SuspendWorkflow, ContextError, CallTable, CallType, InDag, EntryLabels
  <2> QED
    BY <1>4, <2>1
<1>7. CASE FinishEvent(c) \/ FinishUpdate(c) \/ Unregister(c)
  <2>1. FinishEvent(c) => Out
    BY <1>1 DEF FinishEvent, CallTable, CallType, InDag, EntryLabels
  <2>2. FinishUpdate(c) => Out
    BY <1>1 DEF FinishUpdate, CallTable, CallType, InDag, EntryLabels
  <2>3. Unregister(c) => Out
    BY <1>3 DEF Unregister
  <2> QED
    BY <1>4, <1>7, <2>1, <2>2, <2>3
<1>8. CASE SignalApply(c)
  <2>1. \/ \E o : Return(c, o)
        \/ call' = [call EXCEPT ![c].pc = "resume_load", ![c].outcome = "ok"]
    BY <1>8 DEF SignalApply
  <2>2. Out
    BY <1>1, <1>3, <2>1 DEF CallTable, CallType, InDag, EntryLabels
  <2> QED
    BY <1>4, <2>2
<1>9. CASE ResumeLoad(c)
  BY <1>1, <1>3, <1>4, <1>9
  DEF ResumeLoad, CallTable, CallType, InDag, EntryLabels
<1>10. CASE ResumeReplay(c)
  BY <1>1, <1>4, <1>10
  DEF ResumeReplay, CallTable, CallType, InDag, EntryLabels
<1>11. CASE ResumeList(c)
  BY <1>1, <1>4, <1>11
  DEF ResumeList, CallTable, CallType, InDag, EntryLabels
<1>12. ASSUME NEW s \in Steps, ResumeExpire(c, s) PROVE LevelInv'
  BY <1>1, <1>4, <1>12, ZenonT(40)
  DEF ResumeExpire, At, CallTable, CallType, InDag, EntryLabels
<1>13. CASE ResumeExpireEvent(c) \/ ResumeActivate(c)
  BY <1>1, <1>4, <1>13
  DEF ResumeExpireEvent, ResumeActivate, CallTable, CallType, InDag, EntryLabels
<1>14. CASE ResumeExpireFail(c)
  BY <1>3, <1>4, <1>14 DEF ResumeExpireFail
<1>15. CASE ResumeRegister(c)
  <2>1. CASE \E o : Return(c, o)
    BY <1>3, <1>4, <2>1
  <2>2. CASE call' = [call EXCEPT ![c].pc = "level", ![c].ctx = "live",
                                  ![c].level = 1]
    <3>1. Others /\ call'[c].pc = "level" /\ call'[c].level = 1
      BY <1>1, <2>2 DEF CallTable, CallType
    <3> QED
      BY <1>2, <3>1, EntersDag
  <2> QED
    BY <1>15, <2>1, <2>2 DEF ResumeRegister
<1>16. CASE CancelEvent(c) \/ CancelUpdate(c) \/ CancelSteps(c)
  <2>1. Out
    BY <1>1, <1>16
    DEF CancelEvent, CancelUpdate, CancelSteps, CallTable, CallType, InDag,
        EntryLabels
  <2> QED
    BY <1>4, <2>1
<1> QED
  BY <1>5, <1>6, <1>7, <1>8, <1>9, <1>10, <1>11, <1>12, <1>13, <1>14, <1>15,
     <1>16

\* Cancelling a run changes its context and nothing else of it.
LEMMA CancelRunOrdered ==
  ASSUME Typed, LevelInv, NEW c \in Calls, CancelRun(c)
  PROVE  LevelInv'
<1>1. call \in CallTable /\ task' = task
  BY Tables DEF Typed, CancelRun
<1>2. ASSUME NEW d \in Calls PROVE Ordered(call'[d], task[d])
  <2>1. Ordered(call[d], task[d])
    BY DEF LevelInv
  <2>2. CASE d = c
    <3>1. call'[c].pc = "done" /\ call[c].pc # "submit"
      BY ReturnedIsDone DEF CancelRun, At
    <3> QED
      BY <2>1, <2>2, <3>1, NoGoroutines, OutsideOrdered DEF InDag, EntryLabels
  <2>3. CASE d # c
    <3>1. /\ call'[d].pc = call[d].pc /\ call'[d].level = call[d].level
          /\ call'[d].mem = call[d].mem /\ call'[d].todo = call[d].todo
          /\ call'[d].errs = call[d].errs
          /\ call'[d].ctx = "live" => call[d].ctx = "live"
      BY <1>1, <2>3 DEF CancelRun, CancelContext, CallTable, CallType
    <3> QED
      BY <2>1, <3>1, StaysOrdered
  <2> QED
    BY <2>2, <2>3
<1> QED
  BY <1>1, <1>2 DEF LevelInv

LEMMA ArrivalOrdered ==
  ASSUME Typed, LevelInv, NEW c \in Calls, Arrivals(c)
  PROVE  LevelInv'
<1>1. call \in CallTable
  BY Tables DEF Typed
<1>2. task' = task /\ call[c].pc = "idle" /\ call[c].level = 1
  <2>1. task' = task /\ call[c].pc = "idle"
    BY Zenon DEF Arrivals, Run, CancelLoad, PanelResolve, Signal, Arrive
  <2> QED
    BY <2>1 DEF LevelInv, Ordered, EntryLabels
<1>3. CASE Run(c)
  BY <1>3, RunOrdered
<1>4. CASE CancelLoad(c)
  BY <1>1, <1>2, <1>4, OutsideDag
  DEF CancelLoad, CallTable, CallType, InDag, EntryLabels
<1>5. ASSUME NEW s \in Steps, PanelResolve(c, s) PROVE LevelInv'
  <2>1. call' = [call EXCEPT ![c].pc = "done", ![c].kind = "panel",
                             ![c].target = s, ![c].outcome = "ok"]
    BY <1>5 DEF PanelResolve
  <2> QED
    BY <1>1, <1>2, <2>1, OutsideDag DEF CallTable, CallType, InDag, EntryLabels
<1>6. ASSUME NEW s \in Steps, NEW k \in Kinds, Signal(c, k, s) PROVE LevelInv'
  <2> DEFINE f == [call EXCEPT ![running].inbox = @ + 1]
  <2>1. \E r : /\ r.pc \in {"done", "resume_load", "signal_apply"}
               /\ \/ call' = [call EXCEPT ![c] = r]
                  \/ call' = [f EXCEPT ![c] = r]
    <3> DEFINE sent == [IdleCall EXCEPT !.kind = k, !.target = s]
               refused == [sent EXCEPT !.pc = "done", !.outcome = "rejected"]
               accepted == [sent EXCEPT !.pc = IF k = "decision" THEN "resume_load"
                                               ELSE "done",
                                        !.outcome = "ok"]
               asked == [sent EXCEPT !.pc = "signal_apply"]
    <3>1. /\ refused.pc = "done" /\ asked.pc = "signal_apply"
          /\ accepted.pc \in {"resume_load", "done"}
      BY DEF IdleCall
    <3>2. \/ call' = [f EXCEPT ![c] = accepted]
          \/ call' = [call EXCEPT ![c] = refused]
          \/ call' = [call EXCEPT ![c] = asked]
      BY <1>6 DEF Signal
    <3> HIDE DEF sent, refused, accepted, asked, f
    <3> QED
      BY <3>1, <3>2
  <2>2. \A d \in Calls :
          /\ f[d].pc = call[d].pc /\ f[d].level = call[d].level
          /\ f[d].mem = call[d].mem /\ f[d].todo = call[d].todo
          /\ f[d].errs = call[d].errs /\ f[d].ctx = call[d].ctx
    BY <1>1 DEF CallTable, CallType
  <2>3. DOMAIN f = Calls
    BY <1>1 DEF CallTable
  <2> HIDE DEF f
  <2>4. ASSUME NEW d \in Calls \ {c}
        PROVE  Ordered(call'[d], task[d])
    <3>1. call'[d] = call[d] \/ call'[d] = f[d]
      BY <1>1, <2>1, <2>3 DEF CallTable
    <3>2. Ordered(call[d], task[d])
      BY DEF LevelInv
    <3>3. Ordered(f[d], task[d])
      BY <2>2, <3>2, StaysOrdered
    <3> QED
      BY <3>1, <3>2, <3>3
  <2>5. call'[c].pc \in {"done", "resume_load", "signal_apply"}
    BY <1>1, <2>1, <2>3 DEF CallTable
  <2>6. Ordered(call'[c], task[c])
    <3>1. Ordered(call[c], task[c]) /\ \A g \in Steps : task[c][g].pc = "idle"
      BY <1>2, NoGoroutines DEF LevelInv
    <3> QED
      BY <2>5, <3>1, OutsideOrdered DEF InDag, EntryLabels
  <2> QED
    BY <1>2, <2>4, <2>6 DEF LevelInv
<1> QED
  BY <1>3, <1>4, <1>5, <1>6 DEF Arrivals

\* Time passes, callers go away and the process crashes.
LEMMA EnvironmentOrdered ==
  ASSUME Typed, LevelInv, Environment \/ Finished \/ UNCHANGED vars
  PROVE  LevelInv'
<1>1. call \in CallTable /\ task \in TaskTable
  BY Tables DEF Typed
<1>2. CASE CrashRestart
  <2>1. ASSUME NEW c \in Calls PROVE Ordered(call'[c], task'[c])
    <3>1. Ordered(call[c], task[c])
      BY DEF LevelInv
    <3>2. \A g \in Steps : task'[c][g].pc = "idle" /\ ~task'[c][g].dead
      BY <1>2 DEF CrashRestart, IdleTask
    <3>3. \/ call'[c] = call[c] /\ call[c].pc \in {"idle", "done"}
          \/ call'[c].pc = "done"
      BY <1>2, ReturnedIsDone DEF CrashRestart
    <3>4. /\ call'[c].pc \notin InDag
          /\ call'[c].pc \in EntryLabels => call'[c].level = 1
      BY <3>1, <3>3 DEF Ordered, InDag, EntryLabels
    <3> QED
      BY <3>2, <3>4
      DEF Ordered, LowerSettled, OfThisLevel, LevelCovered, Working, InDag
  <2> QED
    BY <2>1 DEF LevelInv
<1>3. CASE Deadline
  <2>1. ASSUME NEW c \in Calls PROVE Ordered(call'[c], task[c])
    <3>1. /\ call'[c].pc = call[c].pc /\ call'[c].level = call[c].level
          /\ call'[c].mem = call[c].mem /\ call'[c].todo = call[c].todo
          /\ call'[c].errs = call[c].errs
          /\ call'[c].ctx = "live" => call[c].ctx = "live"
      BY <1>1, <1>3 DEF Deadline, CallTable, CallType
    <3> QED
      BY <3>1, StaysOrdered DEF LevelInv
  <2> QED
    BY <1>3, <2>1 DEF LevelInv, Deadline
<1>4. ASSUME NEW c \in Calls, ContextCancelled(c) PROVE LevelInv'
  <2>1. ASSUME NEW d \in Calls
        PROVE  /\ call'[d].pc = call[d].pc /\ call'[d].level = call[d].level
               /\ call'[d].mem = call[d].mem /\ call'[d].todo = call[d].todo
               /\ call'[d].errs = call[d].errs
               /\ call'[d].ctx = "live" => call[d].ctx = "live"
    <3>1. call' = [call EXCEPT ![c].ctx = "cancelled"]
      BY <1>4 DEF ContextCancelled
    <3> QED
      BY <1>1, <3>1 DEF CallTable, CallType
  <2>2. task' = task
    BY <1>4 DEF ContextCancelled
  <2> QED
    BY <2>1, <2>2, StaysOrdered DEF LevelInv
<1>5. ASSUME NEW c \in Calls, NEW g \in Steps, StepDeadline(c, g) PROVE LevelInv'
  <2>1. /\ call' = call /\ TimedSteps # {}
        /\ task' = [task EXCEPT ![c][g].dead = TRUE]
    BY <1>5 DEF StepDeadline
  <2>2. \A d \in Calls, h \in Steps :
          /\ task'[d][h].pc = task[d][h].pc /\ task'[d][h].step = task[d][h].step
          /\ task'[d][h].dead => task[d][h].dead \/ TimedSteps # {}
    BY <1>1, <2>1 DEF TaskTable, TaskType
  <2>3. ASSUME NEW d \in Calls PROVE Ordered(call[d], task'[d])
    <3>1. Ordered(call[d], task[d])
      BY DEF LevelInv
    <3> QED
      BY <2>1, <2>2, <3>1
      DEF Ordered, LowerSettled, OfThisLevel, LevelCovered, Working, Covered
  <2> QED
    BY <2>1, <2>3 DEF LevelInv
<1>6. CASE UNCHANGED <<call, task>>
  BY <1>6 DEF LevelInv
<1>7. \/ CrashRestart \/ Deadline \/ UNCHANGED <<call, task>>
      \/ \E c \in Calls : ContextCancelled(c) \/ \E g \in Steps : StepDeadline(c, g)
  BY Zenon DEF Environment, Finished, vars, DecisionOverdue
<1> QED
  BY <1>2, <1>3, <1>4, <1>5, <1>6, <1>7

-----------------------------------------------------------------------------
(* What one step of the goroutine g does to its call.                       *)

TaskFrame(r, q, t, u, g) ==
  /\ q.pc = r.pc /\ q.level = r.level /\ q.todo = r.todo /\ q.ctx = r.ctx
  /\ q.errs = r.errs \/ q.errs = r.errs \cup {g}
  /\ \A x \in Steps : x # t[g].step => q.mem[x] = r.mem[x]
  /\ \A h \in Steps : h # g => u[h] = t[h]
  /\ u[g].dead = t[g].dead
  /\ Level[u[g].step] >= Level[t[g].step]

\* It leaves an error, goes on with its step, leaves the step settled or as
\* it was, or the context of the call is done.
TaskOutcome(r, q, t, u, g) ==
  \/ q.errs = r.errs \cup {g}
  \/ u[g].pc \notin AtRest /\ u[g].step = t[g].step
  \/ Settled(q.mem[t[g].step])
  \/ t[g].pc \in AtRest /\ q.mem = r.mem
  \/ r.ctx # "live"

LEMMA TaskKeepsOrder ==
  ASSUME NEW r, NEW q, NEW t, NEW u, NEW g \in Steps, t[g].pc # "idle",
         t[g].step \in Steps, u[g].step \in Steps, r.level \in Nat,
         r.todo \subseteq Steps,
         Ordered(r, t), TaskFrame(r, q, t, u, g), TaskOutcome(r, q, t, u, g)
  PROVE  Ordered(q, u)
<1> DEFINE s == t[g].step
<1>1. /\ r.pc = "submit" /\ q.pc = "submit" /\ Level[g] = r.level
      /\ Level[s] >= r.level /\ q.level = r.level
  BY DEF Ordered, Working, TaskFrame
<1>2. LowerSettled(q)
  BY <1>1, LevelFacts DEF Ordered, LowerSettled, InDag, TaskFrame
<1>3. OfThisLevel(q, u)
  <2>1. g \notin r.todo
    BY <1>1 DEF Ordered, OfThisLevel
  <2>2. \A x \in q.errs \cup q.todo : Level[x] = q.level
    BY <1>1 DEF Ordered, OfThisLevel, TaskFrame
  <2>3. \A x \in q.todo : u[x].pc = "idle"
    <3> SUFFICES ASSUME NEW x \in q.todo PROVE u[x].pc = "idle"
      OBVIOUS
    <3>1. x \in r.todo /\ x # g /\ t[x].pc = "idle"
      BY <1>1, <2>1 DEF Ordered, OfThisLevel, TaskFrame
    <3> QED
      BY <3>1 DEF TaskFrame
  <2> QED
    BY <2>2, <2>3 DEF OfThisLevel
<1>4. LevelCovered(q, u)
  <2> SUFFICES ASSUME q.ctx = "live", q.errs = {},
                      NEW x \in Steps, Level[x] = q.level
               PROVE  Covered(q, u, x)
    BY DEF LevelCovered
  <2>1. r.ctx = "live" /\ r.errs = {} /\ q.errs # r.errs \cup {g}
    BY DEF TaskFrame
  <2>2. Covered(r, t, x)
    BY <1>1, <2>1 DEF Ordered, LevelCovered
  <2>3. CASE x \in r.todo
    BY <2>3 DEF TaskFrame, Covered
  <2>4. ASSUME NEW h \in Steps \ {g}, t[h].pc \notin AtRest, t[h].step = x
        PROVE  Covered(q, u, x)
    BY <2>4 DEF TaskFrame, Covered
  <2>5. CASE x = s
    BY <2>1, <2>2, <2>3, <2>4, <2>5 DEF TaskOutcome, Covered
  <2>6. CASE x # s /\ Settled(r.mem[x])
    BY <2>6 DEF TaskFrame, Covered
  <2> QED
    BY <2>2, <2>3, <2>4, <2>5, <2>6 DEF Covered
<1>5. Working(q, u)
  <2> SUFFICES ASSUME NEW h \in Steps
               PROVE  /\ u[h].pc # "idle" => /\ q.pc = "submit" /\ Level[h] = q.level
                                             /\ Level[u[h].step] >= q.level
                      /\ u[h].dead => TimedSteps # {}
    BY DEF Working
  <2>1. CASE h = g
    BY <1>1, <2>1, LevelFacts DEF Ordered, Working, TaskFrame
  <2>2. CASE h # g
    BY <1>1, <2>2 DEF Ordered, Working, TaskFrame
  <2> QED
    BY <2>1, <2>2
<1> QED
  BY <1>1, <1>2, <1>3, <1>4, <1>5 DEF Ordered, EntryLabels

\* The two together, of the call c and its goroutine g.
Proceeds(c, g) ==
  /\ TaskFrame(call[c], call'[c], task[c], task'[c], g)
  /\ TaskOutcome(call[c], call'[c], task[c], task'[c], g)
  /\ \A d \in Calls \ {c} : call'[d] = call[d] /\ task'[d] = task[d]

\* A goroutine that goes on, and keeps its step.
LEMMA GoesTo ==
  ASSUME Typed, NEW c \in Calls, NEW g \in Steps, NEW l, TaskGoto(c, g, l)
  PROVE  /\ task'[c][g].pc = l /\ task'[c][g].step = task[c][g].step
         /\ task'[c][g].dead = task[c][g].dead
         /\ \A h \in Steps : h # g => task'[c][h] = task[c][h]
         /\ \A d \in Calls \ {c} : task'[d] = task[d]
<1>1. task \in TaskTable /\ task[c][g] \in TaskType
  BY TaskFacts DEF Typed
<1>2. task' = [task EXCEPT ![c][g].pc = l]
  BY DEF TaskGoto
<1> QED
  BY <1>1, <1>2 DEF TaskTable, TaskType

LEMMA LeavesError ==
  ASSUME Typed, NEW c \in Calls, NEW g \in Steps, NEW l, TaskGoto(c, g, l),
         call' = [call EXCEPT ![c].errs = @ \cup {g}]
  PROVE  Proceeds(c, g)
<1>1. call \in CallTable /\ task[c][g].step \in Steps
  BY TaskFacts DEF Typed
<1> QED
  BY <1>1, GoesTo, LevelFacts DEF Proceeds, TaskFrame, TaskOutcome, CallTable, CallType

LEMMA StaysAtWork ==
  ASSUME Typed, NEW c \in Calls, NEW g \in Steps, NEW l, l \notin AtRest,
         TaskGoto(c, g, l), UNCHANGED call
  PROVE  Proceeds(c, g)
<1>1. task[c][g].step \in Steps
  BY TaskFacts DEF Typed
<1> QED
  BY <1>1, GoesTo, LevelFacts DEF Proceeds, TaskFrame, TaskOutcome

LEMMA Remembers ==
  ASSUME Typed, NEW c \in Calls, NEW g \in Steps, NEW l, NEW x \in Rows,
         TaskGoto(c, g, l), l \notin AtRest \/ Settled(x),
         call' = [call EXCEPT ![c].mem[task[c][g].step] = x]
  PROVE  Proceeds(c, g)
<1>1. call \in CallTable /\ task[c][g].step \in Steps
  BY TaskFacts DEF Typed
<1> QED
  BY <1>1, GoesTo, LevelFacts DEF Proceeds, TaskFrame, TaskOutcome, CallTable, CallType

LEMMA FailureProceeds ==
  ASSUME LevelsAreSafe, Typed, LevelInv, NEW c \in Calls, NEW g \in Steps,
         ~TaskAt(c, g, "idle"),
         HandleFailure(c, g) \/ TaskError(c, g)
  PROVE  Proceeds(c, g)
<1> DEFINE s == task[c][g].step
<1>1. call \in CallTable /\ s \in Steps
  BY TaskFacts DEF Typed
<1>2. CASE TaskError(c, g)
  BY <1>2, LeavesError DEF TaskError
<1>3. CASE Retry(c, g) /\ ~TaskError(c, g)
  <2>1. /\ call' = [call EXCEPT ![c].mem[s] = "retrying", ![c].retries[s] = @ + 1]
        /\ TaskGoto(c, g, "persist_retrying")
    BY <1>3 DEF Retry
  <2>2. "persist_retrying" \notin AtRest
    BY DEF AtRest
  <2> QED
    BY <1>1, <2>1, <2>2, GoesTo, LevelFacts
    DEF Proceeds, TaskFrame, TaskOutcome, CallTable, CallType
<1>4. CASE GiveUp(c, g)
  <2>1. CASE \E l, x : /\ TaskGoto(c, g, l) /\ x \in {"completed", "failed"}
                       /\ call' = [call EXCEPT ![c].mem[s] = x]
    BY <2>1, Remembers DEF Settled, IsTerminalStep, Rows, StepStatuses
  <2>2. CASE /\ s \in IgnoreErrors /\ Dead(c, g)
             /\ TaskGoto(c, g, "idle") /\ UNCHANGED call
    <3>1. call[c].ctx # "live"
      BY <2>2 DEF Dead, LevelInv, Ordered, Working, LevelsAreSafe
    <3> QED
      BY <1>1, <2>2, <3>1, GoesTo, LevelFacts DEF Proceeds, TaskFrame, TaskOutcome
  <2> QED
    BY <1>4, <2>1, <2>2 DEF GiveUp, FailStep
<1> QED
  BY <1>2, <1>3, <1>4 DEF HandleFailure

LEMMA PersistProceeds ==
  ASSUME LevelsAreSafe, Typed, LevelInv, NEW c \in Calls, NEW g \in Steps,
         Persist(c, g)
  PROVE  Proceeds(c, g)
<1> DEFINE s == task[c][g].step
           to == IF TaskAt(c, g, "persist_fallback") THEN Fallback[s] ELSE s
           next == AfterPersist[task[c][g].pc]
<1>1. call \in CallTable /\ task \in TaskTable /\ s \in Steps
  BY TaskFacts DEF Typed
<1>2. task' = [task EXCEPT ![c][g].pc = next, ![c][g].step = to]
  BY <1>1 DEF Persist, TaskTable, TaskType
<1>3. /\ task'[c][g].pc = next /\ task'[c][g].step = to
      /\ task'[c][g].dead = task[c][g].dead
      /\ \A h \in Steps : h # g => task'[c][h] = task[c][h]
      /\ \A d \in Calls \ {c} : task'[d] = task[d]
  BY <1>1, <1>2 DEF TaskTable, TaskType
<1>4. Level[to] >= Level[s]
  <2>1. CASE TaskAt(c, g, "persist_fallback")
    <3>1. Fallback[s] \in Steps /\ Fallback[s] # None
      BY <2>1, ConstantsAssumption DEF Typed, FallbackNamed
    <3> QED
      BY <1>1, <2>1, <3>1 DEF LevelsAreSafe
  <2>2. CASE ~TaskAt(c, g, "persist_fallback")
    BY <1>1, <2>2, LevelFacts
  <2> QED
    BY <2>1, <2>2
<1>5. /\ call' = call \/ call' = [call EXCEPT ![c].errs = @ \cup {g}]
      /\ call'[c].mem = call[c].mem
      /\ \A d \in Calls \ {c} : call'[d] = call[d]
  BY <1>1 DEF Persist, CallTable, CallType
<1>6. TaskFrame(call[c], call'[c], task[c], task'[c], g)
  BY <1>1, <1>3, <1>4, <1>5 DEF TaskFrame, CallTable, CallType
<1>7. TaskOutcome(call[c], call'[c], task[c], task'[c], g)
  <2>1. \/ task[c][g].pc \in {"persist_failed", "persist_end", "persist_fallback"}
        \/ task[c][g].pc \in {"persist_running", "persist_retrying"}
    BY DEF Persist, AfterPersist
  <2>2. CASE task[c][g].pc \in {"persist_running", "persist_retrying"}
    BY <1>3, <2>2 DEF TaskOutcome, AtRest, AfterPersist, TaskAt
  <2> QED
    BY <1>5, <2>1, <2>2 DEF TaskOutcome, AtRest
<1> QED
  BY <1>3, <1>5, <1>6, <1>7 DEF Proceeds

LEMMA TaskProceeds ==
  ASSUME LevelsAreSafe, Typed, LevelInv, NEW c \in Calls, NEW g \in Steps,
         TaskStep(c, g)
  PROVE  Proceeds(c, g) /\ ~TaskAt(c, g, "idle")
<1> DEFINE s == task[c][g].step
           Fails == HandleFailure(c, g) \/ TaskError(c, g)
           Goes == \E l \in {"complete", "skip_step", "suspend_step", "create",
                              "request"} : TaskGoto(c, g, l) /\ UNCHANGED call
           Records(l, x) == /\ TaskGoto(c, g, l)
                            /\ call' = [call EXCEPT ![c].mem[s] = x]
<1>1. call \in CallTable /\ s \in Steps
  BY TaskFacts DEF Typed
<1>2. ~TaskAt(c, g, "idle")
  BY DEF TaskStep, StepStart, Persist, AfterPersist, Backoff, ActionSucceeds,
     ActionFails, ActionPanics, Complete, ReasonLookup, CreateDecision,
     RequestDecision, SuspendStep, SkipStep, TaskAt
<1>3. Fails => Proceeds(c, g)
  BY <1>2, FailureProceeds
<1>4. Goes => Proceeds(c, g)
  BY StaysAtWork DEF AtRest
<1>5. /\ Records("persist_running", "running") => Proceeds(c, g)
      /\ Records("reexec", "running") => Proceeds(c, g)
      /\ Records("persist_end", "suspended") => Proceeds(c, g)
      /\ Records("persist_end", "skipped") => Proceeds(c, g)
  BY Remembers DEF AtRest, Settled, IsTerminalStep, Rows, StepStatuses
<1>6. CASE StepStart(c, g)
  <2>1. CASE Dead(c, g)
    <3>1. /\ call' = [call EXCEPT ![c].errs = @ \cup {g},
                         ![c].mem[s] = IF @ = "pending" THEN "scheduled" ELSE @]
          /\ TaskGoto(c, g, "idle")
      BY <1>6, <2>1 DEF StepStart
    <3> QED
      BY <1>1, <1>2, <3>1, GoesTo, LevelFacts
      DEF Proceeds, TaskFrame, TaskOutcome, CallTable, CallType
  <2>2. CASE ~Dead(c, g)
    BY <1>2, <1>5, <1>6, <2>2 DEF StepStart
  <2> QED
    BY <2>1, <2>2
<1>7. CASE Persist(c, g)
  BY <1>2, <1>7, PersistProceeds
<1>8. CASE Complete(c, g)
  <2>1. CASE ~TaskError(c, g)
    <3>1. /\ call' = [call EXCEPT ![c].mem[s] = "completed",
                        ![c].outputs = IF s \in Reasoning THEN @
                                       ELSE @ \cup {s}]
          /\ TaskGoto(c, g, "persist_end")
      BY <1>8, <2>1 DEF Complete
    <3> QED
      BY <1>1, <1>2, <3>1, GoesTo, LevelFacts
      DEF Proceeds, TaskFrame, TaskOutcome, CallTable, CallType, Settled,
          IsTerminalStep
  <2> QED
    BY <1>2, <1>3, <2>1
<1>9. CASE Backoff(c, g) \/ SuspendStep(c, g) \/ SkipStep(c, g)
  BY <1>2, <1>3, <1>5, <1>9 DEF Backoff, SuspendStep, SkipStep
<1>10. CASE \/ ActionSucceeds(c, g) \/ ActionFails(c, g) \/ CreateDecision(c, g)
            \/ RequestDecision(c, g)
  BY <1>2, <1>3, <1>4, <1>10
  DEF ActionSucceeds, ActionFails, CreateDecision, RequestDecision
<1>11. CASE ReasonLookup(c, g)
  <2>1. store.decisions[s] \in Decisions
    BY <1>1 DEF Typed, TypeOK, StoreType
  <2>2. Fails \/ Goes
    BY <1>11, <2>1 DEF ReasonLookup, Decisions
  <2> QED
    BY <1>2, <1>3, <1>4, <2>2
<1>12. ~ActionPanics(c, g)
  BY DEF ActionPanics, LevelsAreSafe
<1> QED
  BY <1>2, <1>6, <1>7, <1>8, <1>9, <1>10, <1>11, <1>12 DEF TaskStep

LEMMA TaskOrdered ==
  ASSUME LevelsAreSafe, Typed, LevelInv, NEW c \in Calls, NEW g \in Steps,
         TaskStep(c, g)
  PROVE  LevelInv'
<1>1. Proceeds(c, g) /\ task[c][g].pc # "idle"
  BY TaskProceeds DEF TaskAt
<1>2. /\ task[c][g].step \in Steps /\ call[c].level \in Nat
      /\ call[c].todo \subseteq Steps
  BY TaskFacts DEF Typed, CallType
<1>3. task'[c][g].step \in Steps
  BY TaskStepTyped DEF Typed, TypeOK, TaskType
<1>4. Ordered(call[c], task[c])
  BY DEF LevelInv
<1>5. Ordered(call'[c], task'[c])
  BY <1>1, <1>2, <1>3, <1>4, TaskKeepsOrder DEF Proceeds
<1> QED
  BY <1>1, <1>5, OthersOrdered DEF Proceeds

LEMMA NextOrdered == LevelsAreSafe /\ Typed /\ LevelInv /\ [Next]_vars => LevelInv'
<1> SUFFICES ASSUME LevelsAreSafe, Typed, LevelInv, [Next]_vars
             PROVE  LevelInv'
  OBVIOUS
<1>1. ASSUME NEW c \in Calls, CallStep(c) PROVE LevelInv'
  BY <1>1, RunOrdered, BeginLevelOrdered, LevelDoneOrdered, SubmitOrdered,
     OtherCallOrdered, CancelRunOrdered, Zenon DEF CallStep
<1>2. ASSUME NEW c \in Calls, NEW g \in Steps, TaskStep(c, g) PROVE LevelInv'
  BY <1>2, TaskOrdered
<1>3. ASSUME NEW c \in Calls, Arrivals(c) PROVE LevelInv'
  BY <1>3, ArrivalOrdered
<1>4. CASE Environment \/ Finished \/ UNCHANGED vars
  BY <1>4, EnvironmentOrdered
<1> QED
  BY <1>1, <1>2, <1>3, <1>4 DEF Next

LEMMA OrderedIsDone == Typed /\ LevelInv => DependenciesDone
<1> SUFFICES ASSUME Typed, LevelInv, NEW c \in Calls, NEW g \in Steps,
                    task[c][g].pc # "idle", NEW s \in Steps, Level[s] < Level[g]
             PROVE  IsTerminalStep(call[c].mem[s])
  BY DEF DependenciesDone, TaskAt
<1> QED
  BY DEF LevelInv, Ordered, Working, LowerSettled, InDag

\* executeDAG walks the levels in order (executor.go:609-706), for any DAG, any
\* calls, cancellations, deadlines and crashes: where no action panics, no
\* ignored error meets a step timeout and no fallback reaches back to a lower
\* level, no step is at work over a step of a lower level that is not settled.
THEOREM LevelsInOrder ==
  ASSUME LevelsAreSafe
  PROVE  Spec => []DependenciesDone
<1>1. Init => Typed /\ LevelInv
  BY InitTyped, InitOrdered
<1>2. Typed /\ LevelInv /\ [Next]_vars => (Typed /\ LevelInv)'
  BY NextTyped, NextOrdered
<1>3. Typed /\ LevelInv => DependenciesDone
  BY OrderedIsDone
<1> QED
  BY <1>1, <1>2, <1>3, PTL DEF Spec
=============================================================================
