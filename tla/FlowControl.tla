---------------------------- MODULE FlowControl ----------------------------
(***************************************************************************)
(* internal/engine/executor_flow.go: one condition, loop or parallel step  *)
(* and the sub-steps it runs.  Every branch of a parallel step is a        *)
(* goroutine; the iterations of a loop and the chosen branch of a          *)
(* condition run one after the other in the goroutine of the step.  All of *)
(* them go through executeSubSteps, here the process of a `branch': the    *)
(* namespace branch_b, or iter_b of a loop.                                *)
(*                                                                         *)
(* A sub-step runs through executeStep, which WorkflowExecutor models in   *)
(* full; here its retries are hidden and it is an action that succeeds or  *)
(* fails, a decision or a wait for a signal.                               *)
(***************************************************************************)
EXTENDS Integers, Sequences, FiniteSets

CONSTANTS
  Modes,        \* the flow steps considered
  Width,        \* branches of the step; bound on the rounds of a loop
  Length,       \* sub-steps of a branch
  Body,         \* Body[b][k]: the kind of the k-th sub-step of branch b
  MayFail,      \* sub-steps <<b, k>> whose action may fail
  IgnoreErrors, \* sub-steps with on_error: ignore
  MaxIters,     \* what max_iter of a loop may be, 0 for no limit
  SignalCap,    \* the buffer of run.signals
  MaxSignals    \* bound on the signals sent

Branches == 0..(Width - 1)
Kinds == {"action", "reasoning", "wait"}
LoopModes == {"for_each", "while", "until"}
AllModes == LoopModes \cup {"condition", "all", "race"}

ASSUME FlowAssumption ==
  /\ Modes \subseteq AllModes
  /\ Width \in Nat \ {0} /\ Length \in Nat /\ MaxIters \subseteq Nat
  /\ Body \in [Branches -> [1..Length -> Kinds]]
  /\ SignalCap \in Nat /\ MaxSignals \in Nat

VARIABLES
  mode,      \* the step's type and mode, fixed
  items,     \* how many items a for_each goes over, fixed
  maxIter,   \* max_iter of a loop, fixed
  decision,  \* decision rows found by the reasoning sub-steps, fixed
  parent,    \* the goroutine of the step: [pc, iter, result, status]
  branch,    \* where each branch is: [pc, at, err, held]
  mem,       \* run.stepStates of the sub-steps
  log,       \* what replay would make of their events
  resultCh,  \* resultCh of a race: branches in the order they ended
  winner,    \* the branch the race was decided for
  ctx,       \* the context of the step: "live", "cancelled" or "deadline"
  subCtx,    \* the context of the sub-steps: a race makes its own
  signals,   \* the channel run.signals
  used,      \* signals that ended a wait
  sent       \* signals Signal accepted

fixed == <<mode, items, maxIter, decision>>
parentVars == <<parent, winner, ctx, subCtx>>
stepVars == <<mem, log>>
channel == <<signals, used, sent>>
vars == <<fixed, parentVars, branch, stepVars, resultCh, channel>>

None == -1

SubSteps == Branches \X (1..Length)
Answers == {"none", "resolved", "cancelled"}

\* The sub-step branch b is at.  Every iteration of a loop has the same body.
Sub(b) == <<b, branch[b].at>>
Kind(b) == Body[IF mode \in LoopModes THEN 0 ELSE b][branch[b].at]
At(b, label) == branch[b].pc = label

Dead == subCtx # "live"

Init ==
  /\ mode \in Modes
  /\ items \in IF mode = "for_each" THEN 0..Width ELSE {0}
  /\ maxIter \in IF mode \in LoopModes THEN MaxIters ELSE {0}
  /\ decision \in Answers
  /\ parent = [pc |-> "begin", iter |-> 0, result |-> "none",
               status |-> "running"]
  /\ branch = [b \in Branches |->
                 [pc |-> "idle", at |-> 1, err |-> FALSE, held |-> None]]
  /\ mem = [s \in SubSteps |-> "none"]
  /\ log = [s \in SubSteps |-> "none"]
  /\ resultCh = <<>> /\ winner = None
  /\ ctx = "live" /\ subCtx = "live"
  /\ signals = <<>> /\ used = 0 /\ sent = 0

-----------------------------------------------------------------------------
(* executeSubSteps, one branch. *)

Goto(b, label) == branch' = [branch EXCEPT ![b].pc = label]

\* The branch is over; a race hears of it through its channel.
Ends(b, failed) ==
  /\ branch' = [branch EXCEPT ![b].pc = "done", ![b].err = failed]
  /\ resultCh' = IF mode = "race" THEN Append(resultCh, b) ELSE resultCh

\* executeStep returned nil: on to the next sub-step.
Advance(b) ==
  /\ branch' = [branch EXCEPT ![b].pc = "next", ![b].at = @ + 1]
  /\ UNCHANGED resultCh

Settle(b, status) ==
  /\ mem' = [mem EXCEPT ![Sub(b)] = status]
  /\ log' = [log EXCEPT ![Sub(b)] = status]

\* handleStepFailure: an ignored error counts as success, recorded or not.
Fails(b) ==
  \/ /\ Sub(b) \in IgnoreErrors
     /\ IF Dead THEN UNCHANGED stepVars ELSE Settle(b, "completed")
     /\ Advance(b)
  \/ /\ Sub(b) \notin IgnoreErrors
     /\ mem' = [mem EXCEPT ![Sub(b)] = "failed"]
     /\ log' = IF Dead THEN log ELSE [log EXCEPT ![Sub(b)] = "failed"]
     /\ Ends(b, TRUE)

\* running -> completed needs a live context for its event; a deadline that has
\* passed when the work returns makes a failure of it.
Completes(b) ==
  \/ ~Dead /\ Settle(b, "completed") /\ Advance(b)
  \/ Dead /\ Ends(b, TRUE) /\ UNCHANGED stepVars
  \/ subCtx = "deadline" /\ Fails(b)

\* The context is looked at before every sub-step, not after the last.
SubNext(b) ==
  /\ At(b, "next")
  /\ \/ branch[b].at > Length /\ Ends(b, FALSE) /\ UNCHANGED mem
     \/ Dead /\ branch[b].at <= Length /\ Ends(b, TRUE) /\ UNCHANGED mem
     \/ /\ ~Dead /\ branch[b].at <= Length
        /\ mem' = [mem EXCEPT ![Sub(b)] = "pending"]
        /\ Goto(b, "start")
        /\ UNCHANGED resultCh
  /\ UNCHANGED <<fixed, parentVars, channel, log>>

\* pending -> scheduled has no event, scheduled -> running has one.
SubStart(b) ==
  /\ At(b, "start")
  /\ \/ /\ Dead
        /\ mem' = [mem EXCEPT ![Sub(b)] = "scheduled"]
        /\ Ends(b, TRUE)
        /\ UNCHANGED log
     \/ /\ ~Dead
        /\ Settle(b, "running")
        /\ Goto(b, "exec")
        /\ UNCHANGED resultCh
  /\ UNCHANGED <<fixed, parentVars, channel>>

SubActs(b) ==
  /\ At(b, "exec") /\ Kind(b) = "action"
  /\ \/ Completes(b)
     \/ (Dead \/ Sub(b) \in MayFail) /\ Fails(b)
  /\ UNCHANGED <<fixed, parentVars, channel>>

\* executeReasoningStep: suspended and skipped are not errors.
SubReasons(b) ==
  /\ At(b, "exec") /\ Kind(b) = "reasoning"
  /\ \/ Dead /\ Fails(b)
     \/ ~Dead /\ decision = "resolved" /\ Completes(b)
     \/ ~Dead /\ decision = "none" /\ Settle(b, "suspended") /\ Advance(b)
     \/ ~Dead /\ decision = "cancelled" /\ Settle(b, "skipped") /\ Advance(b)
  /\ UNCHANGED <<fixed, parentVars, channel>>

\* executeWaitSignal receives a signal, its own or another's ...
WaitReceive(b) ==
  /\ At(b, "exec") /\ Kind(b) = "wait" /\ signals # <<>>
  /\ signals' = Tail(signals)
  /\ IF Head(signals) = b
     THEN /\ used' = used + 1
          /\ Goto(b, "signalled")
     ELSE /\ branch' = [branch EXCEPT ![b].pc = "put_back",
                                      ![b].held = Head(signals)]
          /\ UNCHANGED used
  /\ UNCHANGED <<fixed, parentVars, stepVars, resultCh, sent>>

\* Faulty: a signal for someone else is forgotten.
PutBackNothing(b) ==
  /\ At(b, "put_back")
  /\ branch' = [branch EXCEPT ![b].pc = "exec", ![b].held = None]
  /\ UNCHANGED <<fixed, parentVars, stepVars, channel, resultCh>>

\* ... and puts back one that is not for it, if there is room.
PutBack(b) ==
  /\ At(b, "put_back")
  /\ signals' = IF Len(signals) < SignalCap
                THEN Append(signals, branch[b].held) ELSE signals
  /\ branch' = [branch EXCEPT ![b].pc = "exec", ![b].held = None]
  /\ UNCHANGED <<fixed, parentVars, stepVars, resultCh, used, sent>>

\* Faulty: the wait looks at the context of the step, not of its branch.
WaitOutlivesRace(b) ==
  /\ At(b, "exec") /\ Kind(b) = "wait" /\ ctx # "live"
  /\ Fails(b)
  /\ UNCHANGED <<fixed, parentVars, channel>>

WaitEnds(b) ==
  /\ At(b, "signalled")
  /\ Completes(b)
  /\ UNCHANGED <<fixed, parentVars, channel>>

WaitCancelled(b) ==
  /\ At(b, "exec") /\ Kind(b) = "wait" /\ Dead
  /\ Fails(b)
  /\ UNCHANGED <<fixed, parentVars, channel>>

-----------------------------------------------------------------------------
(* The goroutine of the step. *)

ParentAt(label) == parent.pc = label

Start(S) ==
  branch' = [b \in Branches |->
               IF b \in S THEN [branch[b] EXCEPT !.pc = "next"] ELSE branch[b]]

\* Faulty: a race that is decided leaves its branches alone.
ResultKeepsContext(result) ==
  /\ parent' = [parent EXCEPT !.pc = "complete", !.result = result]
  /\ UNCHANGED subCtx

\* What the type's function returns: a result, and for a race the end of the
\* context of its branches.
Result(result) ==
  /\ parent' = [parent EXCEPT !.pc = "complete", !.result = result]
  /\ subCtx' = IF mode = "race" /\ ~Dead THEN "cancelled" ELSE subCtx

\* The branch the expression names, the default, none at all, or an error.
Condition ==
  /\ ParentAt("begin") /\ mode = "condition"
  /\ \/ \E b \in Branches :
          /\ Start({b})
          /\ parent' = [parent EXCEPT !.pc = "branch", !.iter = b]
          /\ UNCHANGED subCtx
     \/ \E r \in {"ok", "error"} : Result(r) /\ UNCHANGED branch
  /\ UNCHANGED <<fixed, stepVars, channel, resultCh, winner, ctx>>

ConditionEnds ==
  /\ ParentAt("branch") /\ At(parent.iter, "done")
  /\ Result(IF branch[parent.iter].err THEN "error" ELSE "ok")
  /\ UNCHANGED <<fixed, stepVars, channel, branch, resultCh, winner, ctx>>

\* A for_each loop is over before it looks at its context or at max_iter.
NoItemLeft == mode = "for_each" /\ parent.iter = items

\* The guards of the next round: the context, max_iter, the condition, whose
\* evaluation may fail; that of `over' may, once.  Width bounds the rounds.
Round ==
  /\ ParentAt("begin") /\ mode \in LoopModes
  /\ LET i == parent.iter
         exhausted == maxIter > 0 /\ i >= maxIter
         live == ctx = "live" /\ ~NoItemLeft
     IN  \/ NoItemLeft /\ Result("ok") /\ UNCHANGED branch
         \/ ctx # "live" /\ ~NoItemLeft /\ Result("error") /\ UNCHANGED branch
         \/ live /\ exhausted /\ Result("ok") /\ UNCHANGED branch
         \/ /\ live /\ ~exhausted /\ mode = "while"
            /\ \E r \in {"ok", "error"} : Result(r) /\ UNCHANGED branch
         \/ mode = "for_each" /\ i = 0 /\ Result("error") /\ UNCHANGED branch
         \/ /\ live /\ ~exhausted /\ i < Width
            /\ Start({i})
            /\ parent' = [parent EXCEPT !.pc = "round"]
            /\ UNCHANGED subCtx
  /\ UNCHANGED <<fixed, stepVars, channel, resultCh, winner, ctx>>

\* After the body: its error, or the next round; an until loop looks at its
\* condition here.
RoundEnds ==
  /\ ParentAt("round") /\ At(parent.iter, "done")
  /\ \/ branch[parent.iter].err /\ Result("error")
     \/ /\ ~branch[parent.iter].err
        /\ mode # "until" \/ parent.iter + 1 < Width
        /\ parent' = [parent EXCEPT !.pc = "begin", !.iter = @ + 1]
        /\ UNCHANGED subCtx
     \/ /\ ~branch[parent.iter].err /\ mode = "until"
        /\ \E r \in {"ok", "error"} : Result(r)
  /\ UNCHANGED <<fixed, stepVars, channel, branch, resultCh, winner, ctx>>

Fork ==
  /\ ParentAt("begin") /\ mode \in {"all", "race"}
  /\ Start(Branches)
  /\ parent' = [parent EXCEPT !.pc = "join"]
  /\ UNCHANGED <<fixed, stepVars, channel, resultCh, winner, ctx, subCtx>>

\* Faulty: the errors of branches are forgotten.
JoinDespiteErrors ==
  /\ ParentAt("join") /\ mode = "all"
  /\ \A b \in Branches : At(b, "done")
  /\ Result("ok")
  /\ UNCHANGED <<fixed, stepVars, channel, branch, resultCh, winner, ctx>>

\* wg.Wait(), then the first error if there is one.
Join ==
  /\ ParentAt("join") /\ mode = "all"
  /\ \A b \in Branches : At(b, "done")
  /\ Result(IF \E b \in Branches : branch[b].err THEN "error" ELSE "ok")
  /\ UNCHANGED <<fixed, stepVars, channel, branch, resultCh, winner, ctx>>

\* Faulty: the first result decides, whatever it is.
FirstResult ==
  /\ ParentAt("join") /\ mode = "race" /\ resultCh # <<>>
  /\ resultCh' = Tail(resultCh)
  /\ winner' = Head(resultCh)
  /\ Result(IF branch[Head(resultCh)].err THEN "error" ELSE "ok")
  /\ UNCHANGED <<fixed, stepVars, channel, branch, ctx>>

\* One result of a race: a winner, or one more error, the last of which is
\* the step's.  iter counts the errors.
RaceResult ==
  /\ ParentAt("join") /\ mode = "race" /\ resultCh # <<>>
  /\ resultCh' = Tail(resultCh)
  /\ LET b == Head(resultCh)
     IN  \/ /\ ~branch[b].err
            /\ winner' = b
            /\ Result("ok")
         \/ /\ branch[b].err /\ parent.iter + 1 = Width
            /\ Result("error")
            /\ UNCHANGED winner
         \/ /\ branch[b].err /\ parent.iter + 1 < Width
            /\ parent' = [parent EXCEPT !.iter = @ + 1]
            /\ UNCHANGED <<winner, subCtx>>
  /\ UNCHANGED <<fixed, stepVars, channel, branch, ctx>>

\* The rest of executeStep: completed, failed, or left running because the
\* context is gone.
Complete ==
  /\ ParentAt("complete")
  /\ \E status \in {"completed", "failed", "running"} :
       /\ status = "completed" => parent.result = "ok" /\ ctx = "live"
       /\ status = "failed" => parent.result = "error" \/ ctx = "deadline"
       /\ status = "running" => parent.result = "ok" /\ ctx # "live"
       /\ parent' = [parent EXCEPT !.pc = "returned", !.status = status]
  /\ UNCHANGED <<fixed, stepVars, channel, branch, resultCh, winner>>
  /\ UNCHANGED <<ctx, subCtx>>

-----------------------------------------------------------------------------
(* Signals and time. *)

\* Signal: a decision or data signal for the wait of branch b, or one that no
\* wait is for (Width); a full channel refuses it.
Signal(to) ==
  /\ ~ParentAt("returned") /\ sent < MaxSignals
  /\ Len(signals) < SignalCap
  /\ signals' = Append(signals, to)
  /\ sent' = sent + 1
  /\ UNCHANGED <<fixed, parentVars, stepVars, branch, resultCh, used>>

\* The step times out, or its workflow is cancelled.
ContextDone ==
  /\ ctx = "live" /\ ~ParentAt("returned")
  /\ \E why \in {"cancelled", "deadline"} :
       /\ ctx' = why
       /\ subCtx' = IF Dead THEN subCtx ELSE why
  /\ UNCHANGED <<fixed, stepVars, channel, parent, branch, resultCh, winner>>

\* The branches that run.
Active == {b \in Branches : ~At(b, "idle") /\ ~At(b, "done")}

\* The step has returned: the workflow goes on, whatever is left behind.
Finished == ParentAt("returned") /\ UNCHANGED vars

-----------------------------------------------------------------------------

BranchStep(b) ==
  \/ SubNext(b) \/ SubStart(b) \/ SubActs(b) \/ SubReasons(b)
  \/ WaitReceive(b) \/ PutBack(b) \/ WaitEnds(b) \/ WaitCancelled(b)

ParentStep ==
  \/ Condition \/ ConditionEnds \/ Round \/ RoundEnds
  \/ Fork \/ Join \/ RaceResult \/ Complete

Next ==
  \/ ParentStep
  \/ \E b \in Branches : BranchStep(b)
  \/ \E to \in 0..Width : Signal(to)
  \/ ContextDone
  \/ Finished

Spec == Init /\ [][Next]_vars

\* Goroutines run and actions return; a select with its context done takes
\* that case sooner or later, whatever else is ready.
FlowFairness ==
  /\ WF_vars(ParentStep)
  /\ \A b \in Branches : WF_vars(BranchStep(b)) /\ SF_vars(WaitCancelled(b))

FairSpec == Spec /\ FlowFairness

-----------------------------------------------------------------------------
(* Properties. *)

BranchLabels ==
  {"idle", "next", "start", "exec", "put_back", "signalled", "done"}
ParentLabels == {"begin", "branch", "round", "join", "complete", "returned"}
Statuses == {"none", "pending", "scheduled", "running", "completed", "failed",
             "suspended", "skipped"}
Contexts == {"live", "cancelled", "deadline"}

\* The types of the state.
FlowTypeOK ==
  /\ mode \in AllModes /\ items \in 0..Width /\ maxIter \in Nat
  /\ decision \in Answers
  /\ parent \in [pc : ParentLabels, iter : 0..Width,
                 result : {"none", "ok", "error"},
                 status : {"running", "completed", "failed"}]
  /\ branch \in [Branches -> [pc : BranchLabels, at : 1..(Length + 1),
                             err : BOOLEAN, held : (0..Width) \cup {None}]]
  /\ mem \in [SubSteps -> Statuses] /\ log \in [SubSteps -> Statuses]
  /\ resultCh \in Seq(Branches) /\ winner \in Branches \cup {None}
  /\ ctx \in Contexts /\ subCtx \in Contexts
  /\ signals \in Seq(0..Width) /\ used \in Nat /\ sent \in Nat

\* The branches, or rounds, whose work the step's success stands for.
Needed ==
  CASE mode = "all"  -> Branches
    [] mode = "race" -> {winner}
    [] OTHER         -> {b \in Branches : ~At(b, "idle")}

\* What the log says of a sub-step that is over and did not fail.
Settled == {"completed", "skipped", "suspended"}

\* A flow step is recorded as completed only when every sub-step it needed is
\* settled in the log, through failures that are ignored, losers, dead contexts
\* and rounds cut short, and none is still at work but the losers of a race
\* (executor_flow.go:70, 157, 343, 395).
CompletedMeansSettled ==
  /\ parent.status = "completed"
       => \A b \in Needed, k \in 1..Length :
            log[<<b, k>>] \in Settled
  /\ parent.pc \in {"complete", "returned"} /\ mode # "race" => Active = {}

\* A race fails only when every branch failed, and succeeds with a branch that
\* did not (executor_flow.go:393-421).
RaceOutcome ==
  mode = "race" /\ parent.result # "none"
    => IF parent.result = "ok"
       THEN winner # None /\ At(winner, "done") /\ ~branch[winner].err
       ELSE \A b \in Branches : At(b, "done") /\ branch[b].err

InHand == {b \in Branches : branch[b].held # None}

\* The signals that were accepted and are neither in the channel nor in the
\* hand of a wait they are not for, and ended no wait.
Lost == sent - Len(signals) - Cardinality(InHand) - used

\* The waits that share the channel take each other's signals and put them
\* back; an accepted signal is lost there only while the channel is full
\* (executor_flow.go:494-497), never to a wait it is not for.
LostOnlyWhenFull == [][Lost' # Lost => Len(signals) = SignalCap]_vars

\* The losers of a race record no outcome once it is decided: their context is
\* cancelled before the step goes on (executor_flow.go:397).
LosersAreSilent ==
  [][mode = "race" /\ parent.pc \in {"complete", "returned"} => log' = log]_vars

\* The losers of a race end, a wait for a signal that never comes included:
\* no goroutine is left behind for good.
LosersEnd ==
  mode = "race" /\ ParentAt("returned") ~> Active = {}

\* SKILL.md, "reasoning: Suspends workflow for agent decision": a step does not
\* complete over the head of a decision inside it.
DecisionHoldsStep ==
  parent.status = "completed" => \A s \in SubSteps : mem[s] # "suspended"
=============================================================================
