# opcode in TLA+

This directory holds TLA+ models of opcode, the TLC configurations that check
them on small instances, and proofs, checked by TLAPS, of theorems that hold
for every value of the constants. `PROJECT.json` is the index: components,
runs, seeded faults ("mutants"), the map from definitions to source lines, the
places where the code and its documentation disagree, hazards and theorems.

Contents: 1 the system, 2 the modules and how they correspond to the code,
3 the runs with their bounds and fairness, 4 where code and documents disagree,
5 the proofs, 6 what is not modelled, 7 what could follow.

## 1. The system

opcode executes workflows: directed acyclic graphs of steps, stored in an
embedded libSQL database, run by one process that serves agents over MCP and
people over a web panel.

| Component | State it keeps | Operations | Talks to | What is hard | What makes it correct |
| --- | --- | --- | --- | --- | --- |
| Executor (`engine/executor.go`) | `running` table; per call: step states, outputs, context | Run, Resume, Signal, Cancel, Extend, Status; one goroutine per step and level | store, event log, FSMs, pool, breakers, actions | calls on one workflow overlap; log, row and memory are written one after the other; deadlines and disconnects kill the context that later writes need; a crash keeps only the store | dependencies before dependents, outcomes final, decisions answered once, a suspended workflow can be answered, no failure lost, every call returns |
| FSMs (`engine/fsm.go`) | none | Transition, CancelWorkflow | event log | guards look at memory, not at the store | only documented transitions |
| Worker pool (`engine/worker.go`) | semaphore, WaitGroup, `closed`, metrics | Submit, Shutdown | executor; `workflow.run` submits from inside a job | submit races with shutdown; panics; jobs that wait for jobs | bounded, nothing lost, drains, always progresses |
| Circuit breaker (`engine/circuit_breaker.go`) | per action: state, failures, probes, last failure | AllowRequest, RecordSuccess, RecordFailure | action steps of every workflow | outcomes arrive in a state other than the one they were admitted in, or never | opens at the threshold, half-open is temporary |
| Flow control (`engine/executor_flow.go`) | per call: loop counters, branch states; per run: a channel of signals | condition, loop, parallel, race, wait | executor | branches of a parallel or a race overlap; waits share one channel | every branch settles, one winner, losers end and are silent, a signal reaches the wait it is for |
| Graph (`engine/dag.go`, `validation/dag_check.go`) | none | ParseDAG, levels, the validator's check | executor, define | three searches for cycles over the same steps | levels respect what steps wait for; the searches agree and find every cycle |
| Retry, error codes (`engine/retry.go`, `schema/errors.go`) | attempt, delay | IsRetryableError, ComputeBackoff | executor | arithmetic at the limits; causes wrapped by other errors | the delay asked for, cancellations not retried |
| Interpolation (`expressions/interpolation.go`) | none; reads the step states | Resolve, data_inject | executor | the scope is built while other steps end, and again for a retry; a value is itself scanned for secrets | an attempt reads what steps returned, and a retry reads the same |
| Event log (`store/eventlog.go`) | table `events`, a lock per log | AppendEvent, ReplayEvents | executor, panel | appends of several calls and processes | numbers without gaps or duplicates; no append refused for another's sake |
| Store (`store/libsql.go`) | ten tables | rows of workflows, steps, decisions, jobs, templates, ... | all | several writers of one row | decisions move once |
| MCP tools (`pkg/mcp`) | sessions | opcode.run, define, signal, query, diagram, status | executor, store | a template's next version is computed, then inserted; the list it is computed from may be cut, or unreadable | later defines get later versions, runs take the latest |
| Sessions (`pkg/mcp/sessions.go`, `notifier.go`) | agent to session | capture, Notify, Remove | tools, `workflow.notify` | a session ends without notice and is removed after the agent is back | an agent that is connected can be reached |
| Panel (`internal/panel`) | event streams | answer a decision, cancel, define, schedule, stream | executor, store, hub | answers race with agents | as for the tools |
| Scheduler (`internal/scheduler`) | in-flight set, loop | Start, tick, RecoverMissed, Stop | store, executor | recovery and loop both act on lists read before; jobs run one after the other, and a run may wait for good; crashes between a run and its row | one run of a job at a time, no due time skipped, due jobs served, Stop returns |
| Plugin manager (`internal/plugins`) | processes, health state | LoadPlugin, StopPlugin, health loop, Execute | store, registry | overlapping loads and stops, concurrent calls over one pipe, calls that time out | no process left behind, a caller gets its own answer |
| Event hub (`internal/streaming`) | subscribers with buffers | Subscribe, Publish, unsubscribe | `workflow.emit`, panel | publishers share the lock and reach the subscribers in any order; slow subscribers | publishing never waits for a stream, and a slow stream costs no other an event |
| Process (`cmd/opcode`) | pid file, settings file, address, swapped handler | serve, install, update, signals, shutdown | all | several processes share files and signal each other; the settings are cut off before they are written | a reload that was asked for takes place |
| File actions (`actions/fs.go`) | files | write, append, delete, copy, move | steps of one level | system calls of several steps interleave; a move falls back to a copy | nothing is lost that nobody asked to remove |

## 2. Modules

Every module models a component on its own; `MC*` modules give it to TLC, and the
modules of the last column hold its theorems.

| Module | Models | Checked by | Proved in |
| --- | --- | --- | --- |
| `Fsm` | the two transition tables of `fsm.go` | executor runs | |
| `WorkflowExecutor` | `executor.go` with the store, replay, startup scan and the entry points that call it | `Executor*` | `WorkflowExecutorTypes`, `WorkflowExecutorProofs`, `WorkflowRefinementProofs` |
| `WorkflowLifecycle`, `WorkflowRefinement` | abstract: what a user is promised of a workflow and its steps; the executor implements it | `ExecutorCrash` | `WorkflowRefinementProofs` |
| `WorkflowDivergences` | what documents say and the executor does not do | section 4 | |
| `WorkerPool` | the pool | `Background`, `PoolNested` | `BackgroundProofs` |
| `CircuitBreaker` | one breaker | `Steps`, `ProbeAbandoned` | `StepProofs` |
| `FlowControl` | `executor_flow.go`: one flow step and its sub-steps | `Steps`, `NestedDecision` | `StepProofs` |
| `StepGraph` | ParseDAG, validateDAG, DetectCircularRefs over one definition | `Steps` | `AlgorithmProofs` |
| `Failures` | outcomes of `http.request` and `shell.exec`, IsRetryableError, ComputeBackoff | `Steps` | `AlgorithmProofs` |
| `Interpolation` | Resolve, the executor's scope, data_inject | `Steps` | `AlgorithmProofs` |
| `Plugins`, `PluginCalls` | the plugin manager; the calls to one plugin | `Background` | `BackgroundProofs` |
| `Scheduler` | the scheduler with the panel's edits, crashes and restarts | `Services` | `ServicesProofs` |
| `ToolServer`, `Versions` | defining and running versions of a template | `Services` | `ServicesProofs` |
| `EventLog` | AppendEvent as a transaction | `Services` | `ServicesProofs` |
| `EventHub` | hub and event streams | `Steps` | `ServicesProofs` |
| `Sessions` | SessionRegistry and notifications | `Services` | `ServicesProofs` |
| `ServerProcess` | servers, installs, updates that share `~/.opcode` | `Services` | `ServicesProofs` |
| `FileActions` | `fs.write`, `append`, `delete`, `copy`, `move` | `Services` | `ServicesProofs` |
| `MCWorkflowExecutor`, `MCWorkerPool`, `MCCircuitBreaker`, `MCFlowControl`, `MCSteps`, `MCBackground`, `MCServices` | instances for TLC | | |
| `DataLemmas` | no code: induction and recursion over sets and functions, for the proofs about algorithms | | itself |

Definitions marked "Faulty" are the seeded faults `PROJECT.json` lists; no
specification uses them.

### WorkflowExecutor

One workflow, and the calls made on it. `store` is what survives a crash: the
workflow row (`wf`), the step rows (`steps`), what replay would make of the
event log (`log`, `retries`), the decision rows and the workflow-ending events
(`endings`). `call[c]` is one invocation of Run, Signal (with the Resume it
triggers), Cancel or the panel's answer: where it is (`pc`), its context, and
the step states it holds in memory (`mem`, `outputs`). `task[c][g]` is the
goroutine of step g in call c. `running` is the executor's table of running
workflows, `clock` says which deadlines have passed.

A step of the model is one statement that another goroutine, the clock or a
crash can come before: each insert or update of the store is an action of its
own, and what the code does between two of them in memory is part of the
action. So `Run` is four actions (insert, `RunUpdate`, `RunInitSteps`,
`RunRegister`), a completed step is `Complete` (event and memory) and then
`Persist` (row), and the expiry of a decision is `ResumeExpire`,
`ResumeExpireEvent`, `ResumeExpireFail`. A write through a dead context fails:
`Dead(c, g)` guards every one.

The abstraction: the graph is the function `Level`, which `StepGraph` shows to
be what ParseDAG computes; an action's result is success, error or panic; a
decision has an answer or not; definitions, parameters, outputs (but whether
one is known) and events that are not replayed are left out. What a level has yet to
run is found at once, where the code asks each step as it comes to it
(executor.go:617-631; nothing else moves these steps meanwhile). A dead context is
looked at by the level loop, by Submit and by the goroutines of the steps; that it
also fails the first statements of a call is left out. A flow-control
step is an action here, which `FlowControl` opens.

### The parts of a step: CircuitBreaker, FlowControl, StepGraph, Failures, Interpolation, EventHub

*CircuitBreaker.* `caller[c]` is a step that was admitted as `plain` or as
`probe`, and has not returned; a probe becomes `late_probe` when its half-open
episode is over. `abandoned` counts what the code does not: probes that left
through a return of `executeActionStep` that records no outcome. Time is the
flag `cooled`.

*FlowControl.* The inside of one flow step, from the switch of `executeStep` to
its return. `parent` is the goroutine of the step; `branch[b]` is a call of
`executeSubSteps`: a goroutine for each branch of a parallel step, one after the
other for the rounds of a loop or the chosen branch of a condition. `mem` and
`log` are the states of the sub-steps in `run.stepStates` and in the event log.
`ctx` is the context of the step, `subCtx` what its branches get: the same, but
for a race, which cancels its own. `resultCh` is the channel of a race in the
order the branches ended, `signals` the channel `run.signals`. A sub-step's
retries, handlers and own timeout are hidden in whether it succeeds or fails;
what the value of an expression is, is a choice. A parallel step without
branches returns at once and is left out.

*StepGraph.* `definition` gives each step the list of the steps it depends on,
`Unknown` included. That ParseDAG refuses a reference is told apart, the code of
its error (a step that names itself has one of its own) is not. `Kahn` is ParseDAG's queue, in the order of the ids as the
code sorts them, `Depth` and `Levels` are computeLevels; `ValidateDAG` counts as
validateDAG does. `DetectCircularRefs` is the search in depth: `Visit` is one call,
and the calls it makes are those that may go one less deep, which is enough because
a search only goes down to steps it has not seen. The reference they are checked
against is `WaitsFor`: what is in every set of steps that has a step's dependencies
and those of its members.

*Failures.* An attempt is a request (limits, flags, a directory that is denied),
the world it meets (status, redirects, sizes, where a cancellation, a deadline or
a failure stops it) and an outcome. An error is the sequence of what Unwrap goes
through. A request with `max_redirects` follows one hop fewer (http.go:324); zero
stands for the limit of net/http, which counts in the same way. The same module has
ComputeBackoff on integers of `Bits` bits, with Go's wrap-around; `Product` and
`Intended` are what the documents say of it.

*Interpolation.* Params, outputs and secrets are sequences of tokens: a
reference with its path, a text, which may or may not stand between JSON quotes
as it is, or a marker that is not closed. `Resolve` is the two passes of the
code, the second for secrets only; steps end (`produced`) and `workflow.context`
writes (`accumulated`) between the attempts.

*EventHub.* Publishers (`workflow.emit` steps) hold the hub's lock together:
`Publish` takes it and finds the subscribers whose filter the event passes, `Send`
puts the event into the channel of one more of them, in any order, or drops it,
`PublishEnds` lets go. Subscribing and cancelling need the lock alone. `emitted` has
the events in the order their publishers took the lock, each with those published
before it (`after`): of two events of publishers that overlap neither is first, and
two streams may have them in opposite orders. A stream has a filter, a channel and
what it has written out; `dropped` is what its full channel refused. It is a stream of
the panel, but an event of a step, and a part of `MCSteps`.

### What runs in the background: WorkerPool, Plugins, PluginCalls

*WorkerPool.* `sub[j]` is where the Submit of job j is, `work[j]` where its
goroutine is. `Child[j]` is the job that j's function submits and waits for,
which is what `workflow.run` does through the one pool `main.go` creates.

*Plugins.* `process[p]` is an operating-system process with its managedPlugin,
`table` the manager's entry, `row` the status in the store. LoadPlugin is cut
where it lets go of the lock, StopPlugin at the cancel, the wait and the update,
the health loop at its report. *PluginCalls* has the two pipes of one process,
the calls and the reading goroutines they leave behind.

### The services: Scheduler to FileActions

*Scheduler.* `scan[s]` is the tick of the loop or RecoverMissed: the list it
read, the `now` it took, the job it is at (claim, run, update of the row,
release). `jobs` are the rows, which survive `Crash`; `tickReady` is the
ticker's channel of capacity one. A cron expression is a period in ticks.
`Interactive` are the jobs whose run may wait for good, for a signal.

*ToolServer*, *Versions.* `templates` maps a version to the call that *ToolServer*, *Versions.* `templates` maps a version to the call that stored it
last; `serving` are the calls, cut between the query of the versions and the
insert. A version's text is its number in base `Base`, and lists are ordered by
text and cut after `ListLimit`, as ListTemplates does. Each statement may fail: a
define that cannot read its list goes on with v1 (`read` is false) and stores it over
the v1 there is; an error of the insert (`DefineFails`), or of any statement of a run
(`RunFails`), ends the call.

*EventLog.* An append takes the process's one connection, becomes a writer
(the row that is inserted and deleted at once), reads the last number, inserts
and commits. SQLite is external: one write lock, a stale snapshot cannot become
a writer, an uncommitted transaction is gone with its process.

*Sessions.* `session` is the registry, `current` the session of an agent's last
call, `notify` a Notify between its lookup, its send and its Remove.

*ServerProcess.* `settings`, `pidFile` and `listener` are shared; each server has
its configuration, its swapped handler and two signal channels of capacity one.
An install cuts the settings off and then writes them (`CutSettings`,
`WriteSettings`): `file` is empty in between, and may be a mixture when two of them
write. What reads it then gets the defaults, with version zero, and `torn` remembers
it until the next signal. An install or update reads the pid file first and signals
later.

*FileActions.* A directory holds numbered files, a file is a sequence of blocks;
open files outlive their names. Every system call is a step, a retry starts the
action again.

### Composition

The executor composes with the store, the log and the FSMs inside
`WorkflowExecutor`: what the interleaving of these decides is in one state
space. The other components meet through a call and its answer. Where the caller
matters to the callee it is part of the module (jobs that submit jobs, callers
of a breaker, the panel's edits of the scheduler's rows, the tools and the
template runner over one table); where it does not, the answer is a choice in
the caller's module. `MCSteps`, `MCBackground` and `MCServices` put components
that share no state into one instance: the variable `part` is chosen at the
start and names the one that moves, the others stay, so states add up and each
component's properties are checked over its full behaviours.

## 3. Runs

| Run | Instance | Shows |
| --- | --- | --- |
| `ExecutorSequential` | five steps on two levels, two of them decisions that may expire, a retry, a fallback, an ignored error; four calls one after the other | `TypeOK`; the rows are a view of the log (`ViewMatchesLog`), a suspended workflow has a decision to answer (`SuspendedIsAnswerable`), no failure is lost (`NoSilentFailure`), a finished workflow stays finished (`TerminalIsFinal`) |
| `ExecutorConcurrent` | three steps, three calls of any kind two at a time, one crash | levels in order (`DependenciesDone`), reasoning steps complete through decisions only (`ReasonedCompletion`), decisions final (`DecisionFinal`) |
| `ExecutorCrash` | three steps, three calls one at a time, deadline with suspend, one crash | every behaviour is one of `WorkflowLifecycle` (`ImplementsLifecycle`) |
| `ExecutorLive` | two steps; timeout, failure, retry, panic, disconnect and a concurrent cancel | `EveryCallReturns` |
| `Steps`, breaker | four callers, threshold two, two probes, one caller that may abandon | `OpenAfterThreshold`, `ProbesDecide` |
| `Steps`, flow | every kind of flow step; two branches or rounds of two sub-steps, two signals | `CompletedMeansSettled`, `RaceOutcome`, `LostOnlyWhenFull`, `LosersAreSilent`, `LosersEnd` |
| `Steps`, graph | every graph of three steps with any lists of two, and of four steps with sorted lists | `CyclesAreFound`, `LevelsRespectWaits` |
| `Steps`, failures | every policy and every attempt of the bounds, up to three redirects against limits of one to three | `BackoffIsIntended`, `AttemptsAreReported` |
| `Steps`, interpolation | one reader, two steps it may name, a secret, an input whose key has a dot | `ReadsAreFinal` |
| `Steps`, hub | two publishers, two streams with room for one event, two workflows, two events | `StreamsAreFaithful` |
| `Background`, pool | four jobs, two slots, a parent and its child, a panic, a cancelled wait, two shutdowns | `BoundedConcurrency`, `ShutdownDrains`, `CallsReturn` |
| `Background`, plugins | two loads and a stop, two processes that may die | `OnlyOverlapOrphans`, `StoppedStaysInactive`, `StopReturnsAndLoopEnds` |
| `Background`, calls | three calls, any of which may time out | `AnswersAreNotMixed` |
| `Services`, scheduler | two jobs over three ticks, the run of one of which may wait for good; edits, a crash, a restart | `OneRunAtATime`, `PassedMeansRan`, `DueIsServed`, `StopEnds` |
| `Services`, tools | a tool call, the panel and the runner on one template of three versions; statements that fail | `LaterDefineLaterVersion`, `RunsTakeTheLatest` |
| `Services`, log | three appends of two processes that may die, a reader | `AppendsAreSerial` |
| `Services`, sessions | two agents, three sessions, two notifications | `ConnectedIsReachable` |
| `Services`, process | a server, an install, another install or an update; one may die | `ReloadsAreApplied` |
| `Services`, files | two file steps, one tried again, over three directories on two file systems | `NothingIsLost` |
| `CancelIsOverwritten` | a cancel beside a run | finding |
| `OrphanIsStuck` | a crash during a run | finding |
| `PoolNested` | two parents, two slots | finding |
| `ProbeAbandoned` | one probe, which may be abandoned | finding |
| `NestedDecision` | a condition with a decision in each branch | finding |

### Bounds

*Executor.* `Calls` bounds how many calls are made in all and `MaxInFlight` how
many overlap: races here are between two calls (the second run or cancel of a
workflow and the first), and three or four calls in a row are enough to run,
answer two decisions and cancel. Two levels are enough for a dependency, two
steps on one level for steps that overlap, one retry for the retry path,
`MaxCrashes` one for each place a crash can happen. Calls are interchangeable,
and the runs that check no liveness use that symmetry.

*Steps.* In the breaker, three callers fill the threshold and the probes, and the
fourth is late. In a flow step, two branches are a winner and a loser, two
sub-steps let a branch fail before or after another has settled, and two
signals, with room for one (`SignalCap` is 16 in the code), are one for each wait
or one that no wait is for; `Width` also bounds the rounds of a loop, and
`MaxIters` covers a loop with and without `max_iter`. Four steps are the smallest
graph with a diamond and a step outside a cycle; three with unsorted lists have
unknown names, repetitions and references to themselves. Six bits let a product wrap to
a negative and to a positive number within eight attempts. A body limit of three
bytes against writes of up to four is below, at and over the limit; limits of
one to three against up to three redirects are too. One reader
tells every order of two steps that end and of its own attempts. In the hub two events
of two publishers reach two streams in every order, and a buffer of one (64 in the code)
is full after one event.

*Background.* Four jobs make two waits on two slots; two loads are an overlap,
two processes what it leaves; a third call reads after a timeout and an answer.

*Services.* Three ticks let a job with period two miss one, and a restart makes
RecoverMissed run beside the loop on rows of the process before; every expression
parses (`BadCron` is empty, and a job in it has no next time to be passed over). In
base two the texts of three to five versions have one to three digits, so their order
is not that of the numbers, and a list of one misses the latest from the fourth on, as
a list of a hundred may in base ten. Three appends are two in one process and one in
another. Three sessions let an agent reconnect while the removal of its old session is
under way. Three processes make two that share the files of a third. Files of two
blocks can be half copied.

In these three runs the variable `part` says which component moves. Deadlock is
checked in every run, and a state where everything has ended allows an explicit
stutter (`Finished` in the executor, `AllDone` in the pool). In the parts that
`Rest` names the bounds can be used up at any point, and `Rest` always allows a
stutter: there the check for deadlock says nothing, and progress is what the
liveness properties state.

### Fairness

*Executor.* Every goroutine that can take a step eventually does (weak fairness of
`CallStep`, `TaskStep`): the Go scheduler is preemptive and actions carry
timeouts. Nothing is assumed of users, timers, crashes or of when Shutdown is
called.

*Pool.* Weak fairness of `SubmitStep`, `WorkStep`, `Return`; strong fairness of
`Acquire`: a channel serves its waiters in order.

*Breaker.* `CooldownElapses` is fair because time passes. `BusyBreaker`, used for
`ProbeAbandoned` only, adds that the action is called again and again, so that
the counterexample is not a system that is idle.

*Flow step.* Every goroutine runs and every action returns, and `WaitCancelled` is
strongly fair: a `select` chooses among the ready cases at random, so a wait whose
context is done does not take signals for ever. No signal is assumed.

*Scheduler.* Weak fairness of each scan's steps, of the clock (`Minute`) and of
`StopReturns`: goroutines run, and runs of jobs return, but those that wait for a
signal: such a wait has no timeout, so nothing is assumed of the run of an interactive
job while the context lives (`WaitsForSignal`); when it is cancelled the wait ends.
`DueIsServed` therefore ends in a third way: the loop is held up for good by such a
run. Strong fairness of `LoopEnds`: the loop's `select` may prefer a ready tick, but
not for ever. No edit, crash or stop is assumed.

*Plugins.* A load or stop that was begun goes on, the health loop ticks, and its
`select` takes the end of its context sooner or later (strong fairness of
`HealthEnds`). Neither that a plugin exits nor that it answers is assumed.

## 4. Where code and documents disagree

Five runs expect a violation; `PROJECT.json` quotes the documents.

* `CancelIsOverwritten`: a workflow cancelled while its last level ends becomes
  `completed`. In `ExecutorSequential`, without overlap, `TerminalIsFinal` holds.
* `OrphanIsStuck`: a workflow suspended by the startup scan has no decision, and
  nothing but a decision resumes a workflow. Without a crash,
  `SuspendedIsAnswerable` holds.
* `PoolNested`: as many `workflow.run` steps as slots wait for ever. With fewer
  parents than slots (`Background`) every Submit returns.
* `ProbeAbandoned`: a probe that fails before its action is called (bad
  parameters) leaves the circuit half-open and rejecting for ever. `ProbesDecide`
  counts exactly these.
* `NestedDecision`: a flow step does not notice that a sub-step was suspended;
  it completes, and its workflow with it, over a pending decision.

`WorkflowDivergences` states seven more of the executor. Each is refuted by TLC on
three steps, `act` and `ask`, then `post` (the definitions `MCSteps` and `MCLevel`
of `MCWorkflowExecutor`) with the constants given here and all others as in
`OrphanIsStuck.cfg`:

| Property | Constants | What happens |
| --- | --- | --- |
| `TimeoutCancels` | `OnTimeout = "cancel"`, no crash | the caller is told `cancelled`, the row stays `active` |
| `SuspensionOutlivesDeadline` | `OnTimeout = "suspend"`, two calls, no crash | resumed, the workflow is past its deadline at once |
| `AcceptedDecisionResolves` | two calls in flight, no crash | a decision signal during a run answers ok and changes nothing |
| `OutputsRebuilt` | two calls, no crash | after a resume, outputs of completed steps are missing |
| `IgnoredStepSettles` | `TimedSteps = IgnoreErrors = {act}`, no crash | the completion of the ignored step fails with the dead context |
| `OutcomeIsFinal` | `Kinds = {"cancel"}`, two calls | cancel after a crash skips a step that had completed |
| `ExpiryFailsStep` | three decisions, one timed, three calls | a crash inside the expiry turns it into an answer |

and so are `NoSilentFailure` with a crash and `MayFail = {act}` (a resumed level
takes a failed step for done), and `ViewMatchesLog` with a timed decision and no
fallback option (the row of an expired step stays `suspended`). In
`DependenciesDone` too there is a gap outside the checked instance: an action that
panics, and a step whose error is ignored after its own timeout, end with nothing
recorded, and the next level starts over an unsettled step (TLC refutes it with
`MayPanic = {act}`, and with `IgnoreErrors = TimedSteps = {act}`). These are two of
the three conditions of the theorem `LevelsInOrder` (section 5).

Definitions of the other modules that say what a document or comment says, that no
run lists, and that TLC refutes:

| Property | Says | Instance | What happens |
| --- | --- | --- | --- |
| `MissedRunsOnce` (`Scheduler`) | scheduler.go:197, missed jobs run once | `Services` | the tick runs a job and stores its next time, RecoverMissed runs it again from the list it read before |
| `NextRunAdvances` (`Scheduler`) | stored times advance | `Services` | the slower of two scans stores a next time computed from its earlier now |
| `ServerServes` (`Scheduler`) | the server gets to listen | `Services`, `Interactive = {a}` | RecoverMissed (main.go:215) waits for a workflow that waits for a signal, which arrives through the server that starts at main.go:274 |
| `DueIsAlwaysServed` (`Scheduler`) | workflow-schema.md:296, the scheduler "executes due jobs" | `Services` | the tick runs one job after the other: while one waits for a signal, the others stay due, for good if it never comes |
| `StoredIsKept` (`ToolServer`) | docs/mcp-tools.md:43, auto-versioning | `Services` | two overlapping defines compute the same version and the second replaces the definition of the first, which was told that version; a define that cannot list the versions stores v1 again (tools.go:354, panel/api.go:246) |
| `InstallReloads` (`ServerProcess`) | operations.md:49, a running server is signalled to reload | `Services`, `MaxKills = 0`, fairness as in `ProcessSpec` | an install that finds no pid file becomes a second server, overwrites the pid file, fails on the address and leaves; later installs signal nobody. With `MaxKills = 1` also: an install that dies between cutting the settings off and writing them leaves the server with the defaults, if another's signal makes it read them then |
| `CrashIsNoticed` (`Plugins`) | README.md:50, plugins with auto-restart | `Background` | nothing calls Wait on a process that dies by itself, so it stays healthy in the table |
| `BackoffIsCapped` (`Failures`) | error-handling.md:23, `max_delay` caps the backoff | `Steps` | the doubling wraps before it is compared, and the retry does not wait |
| `NoneIsImmediate` (`Failures`) | docs/workflow-reference.md:27, backoff `none` is an immediate retry; error-handling.md:18 too | `Steps` | ComputeBackoff has no case for `none` and returns the delay (retry.go:93-94) |
| `HopsAreFollowed` (`Failures`) | actions.md:21, `max_redirects` | `Steps` | the hop that reaches the limit is refused (http.go:324), so a server that asks for as many as are allowed is not reached |
| `WholeOutputIsRead` (`Interpolation`) | workflow-reference.md:112, `"${{steps.process.output}}"` | `Steps` | an object goes between the quotes of the JSON string and the params no longer parse |
| `IntentIsRead` (`Interpolation`) | workflow-reference.md:130, `context.intent` | `Steps` with `<<Ref(<<"context","intent">>)>>` added to `Params` | there is no row before the first `workflow.context`, and the attempt fails |

Seen while modelling (`expressions.md`, `operations.md` and `error-handling.md` are
in `skills/opcode/references`, the other documents in `docs`):

* `expressions.md:27` documents `data.items[0].name`; `traversePath` never indexes a
  list. An object of accumulated data replaces `intent` and `agent_id` of the same
  name. `data_inject` is resolved without the workflow's params, so `inputs.*` stays
  as written. A value with `${{` in it makes the second pass fail.
* `error-handling.md:23` gives each retry a fresh `context.WithTimeout`; the
  timeout is set once, around all attempts (executor.go:1191-1200).
* A command killed because the workflow was cancelled is answered as a success with
  an exit code of -1.
* Only `workflow.emit` publishes to the hub; `operations.md:165` lists the events of
  steps and workflows.
* SIGHUP or SIGTERM before `signal.Notify` ends a starting server; `os.Exit` skips
  `removePidfile`, and a server that ends removes the pid file of the one that
  replaced it. `settings.json` is truncated and then written (install.go:67), and what
  does not parse is ignored (config.go:47): a reload in between puts the defaults in
  force (`ReloadsAreApplied` says when they do not stay). main returns without waiting
  for `httpSrv.Shutdown`.
* Concurrent `workflow.emit` steps may reach two streams of the panel in opposite
  orders: Publish holds the lock of a reader (memory_hub.go:38).
* A stop of a plugin between the publication of its process and the update of its row
  leaves the row active, as the load writes it last; `StoppedStaysInactive` is about
  rows that were inactive.
* `fs.copy` of a file onto itself truncates it and answers success; of a directory
  into itself it does not end.
* `validateDAG` drops repeated dependencies, which ParseDAG refuses, and its warning
  for unreachable steps can never be given. Nothing outside the tests calls the
  validator, `DetectCircularRefs` or `LoadPlugin`.

## 5. Proofs

Each theorem is about the specification of its component (`Spec` of the executor,
the pool and the flow step, `BreakerSpec`, `PluginsSpec`, `CallsSpec`,
`GraphSpec`, `FailuresSpec`, `InterpolationSpec`, `SchedulerSpec`, `ToolSpec`, `FileSpec`,
`EventLogSpec`, `HubSpec`, `SessionsSpec`, `ProcessSpec`), for any
sets, sizes and bounds that the named assumptions of the module allow. A part of a
composite run takes the steps of that specification.

### The executor

| Theorem | Property | Inductive invariant and why it is needed |
| --- | --- | --- |
| `ExecutorTypes` | `TypeOK` | that the local variables of a call have been set where its `pc` uses them (`LocalsSet`) and that a task runs as a fallback only of a step that has one (`FallbackNamed`); the three together are inductive |
| `DecisionsAreFinal` | `DecisionFinal` | only the types: every action that writes a decision row tests it for `none` or `pending` in the same statement |
| `ReasonedOnly` | `ReasonedCompletion` | memory claims a completed reasoning step only with a decision taken (`MemDecided`), and a goroutine about to complete one has seen it taken (`ReadyDecided`); `DecisionFinal` keeps both true while other calls interleave |
| `LevelsInOrder` | `DependenciesDone` | `LevelInv` follows each call through executeDAG: all steps of the lower levels are terminal in memory (`LowerSettled`), and each step of the level in progress still has to be submitted, is settled, or is the step of a goroutine at work, unless an error was left or the context is done (`LevelCovered`); so when wg.Wait returns without either, the level is settled too. The property alone says nothing of the moment between two levels, when no goroutine runs |
| `EndIsFinal` | `TerminalIsFinal` | `StatusKnown`: at most one call is under way, and where it is says what the status in the store is; so each update of the status starts from the one the FSM was asked about |
| `ExecutorFollowsLifecycle` | `ImplementsLifecycle` | `LifecycleInv` adds to the two before what a call knows (`OutcomesTracked`): an outcome in the log is the one in memory, one in memory is in the log but for a failure about to be reported, a pending decision has a step without an outcome, and before the workflow starts no step has one. Then each action is a step of `WorkflowLifecycle` or a stutter |
| `WaitsForAnAnswer` | `SuspendedIsAnswerable` | `AnswerInv`: a goroutine that suspends its step has its decision pending, and a level with a suspended step has a pending decision or a goroutine that will look again; a suspended workflow has a decision or a call on its way to resume it |
| `FailuresAreTold` | `NoSilentFailure` | `FailureInv`: a failed step without a fallback is about to be reported, has left an error that its suspension does not hide, or the context is done (`Doomed`); from there every path ends in `failed`, `cancelled` or the deadline |
| `RowsFollowLog` | `ViewMatchesLog` | `ViewInv`: memory and log name the same outcome of each step, and memory and row as well, unless a goroutine is busy with the step (`Synced`); between the event and the update of a cancellation or an ending the two differ by exactly what the next statement writes |

A theorem of the executor that needs a condition on the constants names it, and TLC
refutes the property where one is dropped:

* `LevelsAreSafe` (`LevelsInOrder`): no action panics, step timeouts and ignored
  errors do not meet, no fallback runs a step of a lower level again. Section 4 says
  what goes wrong.
* One call at a time (`MaxInFlight <= 1`), for the five theorems of
  `WorkflowRefinementProofs`. `CancelIsOverwritten` is the counterexample.
* `LifecycleIsSafe` (`ExecutorFollowsLifecycle`): also `LevelsAreSafe`, no
  cancellation, no deadline that cancels and no fallbacks. Cancel skips steps by their
  rows, which a crash has left behind the log (`OutcomeIsFinal`, section 4); the skip a
  deadline makes of a suspended step leaves its decision pending, and when that expires
  the step fails over its outcome; a step that runs again as a fallback replaces its
  outcome. Crashes and the other deadlines are within the theorem.
* `AnswersResume` (`WaitsForAnAnswer`): no crash (`OrphanIsStuck`), no deadline that
  suspends, no step timeout (when it passes between the answer and the second start of
  the step, memory still has the step as suspended, and the level suspends the workflow
  again over a decision that is resolved), and answers that come through
  `opcode.signal`: the panel answers a decision without resuming, and a decision
  cancelled by a signal leaves its workflow suspended.
* `FailuresSurface` (`FailuresAreTold`): no crash, and no fallback that is a reasoning
  step: its suspension takes the place of the failure, and the level then waits for an
  answer over an error that nobody reports.
* `ViewIsKept` (`RowsFollowLog`): no crash, no context that ends (its events are lost,
  its rows are written), decisions that expire have a fallback option, and no fallback
  may suspend or panic: two goroutines then work on one step, and the one that panics
  leaves its row as it was. `ExecutorSequential` is an instance of the last three
  theorems and of `EndIsFinal`.

### The other components

| Theorem | Property | Inductive invariant and why it is needed |
| --- | --- | --- |
| `PoolTypes`, `PoolAccounts`, `PoolIsBounded`, `PoolDrains` | `BoundedConcurrency`, `ShutdownDrains` | slots and goroutines counted against the positions of the jobs (`SlotsAccounted`); a closed pool starts nothing, so the WaitGroup only falls |
| `BreakerTypes`, `OpensAtThreshold`, `ProbesAlwaysDecide` | `OpenAfterThreshold`, `ProbesDecide` | a half-open circuit came from an open one, so its count is at the threshold; running and abandoned probes counted against `halfOpenAttempts` |
| `FlowTypes`, `CompletedOverSettled`, `RacesEndRight`, `LosersStaySilent`, `SignalsAreKept` | `CompletedMeansSettled`, `RaceOutcome`, `LosersAreSilent`, `LostOnlyWhenFull` | `FlowInv`: while the context lives, a branch that has passed a sub-step has it in the log (`WorkRecorded`); branches that run one after the other rest while it is not their turn (`OneAtATime`); a race has counted as many errors as branches it has heard of, all of which failed (`ErrorsCounted`), so at the last one none is left; its winner was heard of before its context ended (`WinnerRecorded`) |
| `NoOrphanWithoutOverlap`, `StoppedIsRecorded` | `OnlyOverlapOrphans`, `StoppedStaysInactive` | `PluginsInv`: a process is started by one load, before anything else holds it (`StartedOnce`, `Unpublished`); a stop waits for its process (`StopsInOrder`); loads that do not overlap find the table empty when they publish (`LoadsApart`) |
| `AnswersStayApart` | `AnswersAreNotMixed` | each line belongs to one call and is in one pipe or taken once; without sharing there is at most one reader (`OneAtATime`) |
| `SchedulerHasTypes`, `JobsRunOnce`, `NoDueTimeIsSkipped` | `OneRunAtATime`, `PassedMeansRan` | the claims are exactly those of the scans that hold one; Stop ends both scans before it returns (`ScansEndInOrder`); a scan about to update a row has its run in the history (`StoredAfterRun`) |
| `AppendsStaySerial` | `AppendsAreSerial` | who has read the last number holds the write lock until its commit (`WriterIsAlone`), so the number it holds is still the next one (`NumberIsNext`) |
| `StreamsMissNothing` | `StreamsAreFaithful` | `HubInv`: a stream that has not subscribed has nothing and one that has did so in the past (`HandlersStartEmpty`); publishers that hold the lock have events of their own, to be sent to streams that want them and subscribed before (`HoldsLock`); and no event was begun after one that is still being sent (`AfterIsOver`), so whichever is sent last, what is in the channel before it did not come after it |
| `AgentsStayReachable` | `ConnectedIsReachable` | the registry has an agent's last session or none; what Notify removes was seen closed and stays closed, so a reconnection is another session |
| `ReloadsTakeEffect` | `ReloadsAreApplied` | `ProcessInv`: nobody is asked for a reload before it handles signals (`NotYetAsked`); what is in force, what a reload has read and the file have versions in this order, but for a reload of a file that was not whole (`VersionsRise`); a reload that was asked for is under way, signalled or done (`ReloadIsNotLost`). `MendInv`: a file cut off has an install at work on it, and whoever is named by the pid file or about to be signalled has booted (`NamesHaveBooted`), so the server that read such a file is the one this install will signal (`TornIsAsked`) |
| `CyclesAreAlwaysFound`, `LevelsAlwaysRespectWaits` | `CyclesAreFound`, `LevelsRespectWaits` | the state only holds what the functions return (`GraphInv`); the work is about the functions. In Kahn's queue (`KahnInv`) each step sorted comes after what it waits for, and what is pending counts the dependencies not sorted; when it stops early, the steps left wait for each other. A depth is one more than the deepest dependency (`JustBelow`), and the steps below a depth are a closed set. A visit of the search in depth (`Visited`) finds a cycle there is, or leaves black steps that are closed and wait for none of themselves |
| `BackoffIsRight` | `BackoffIsIntended` | `DoubledIsPower`: as long as the power of two fits, no doubling before it wrapped |
| `AttemptsAreTold` | `AttemptsAreReported` | `ReportInv`: the outcome is what the action answers in the world it met; `KeptIsPrefix`: keeping as much of the next chunk as there is room for is keeping the beginning of the whole, whatever the chunks |
| `ReadsStayFinal` | `ReadsAreFinal` | `InterpolationInv`: the property with the types and with what a reader was let to name (`ReadsNameSteps`). A reference that led to a value leads to the same one in any later scope (`LookupIsStable`), and what a value brings are tokens of values, so the second pass meets no reference of the params but secrets (`ResolvedIsFinal`) |
| `LaterDefineIsLater`, `RunsAreOfTheLatest` | `LaterDefineLaterVersion`, `RunsTakeTheLatest` | `ToolInv`: the versions stored are all up to `newest`, what a call has read, if it could, is at least the newest at its start (`CallKept`), and a row was made of such a read (`RowKept`). `LatestReaches`: a list ordered by the texts of the numbers and not cut holds the greatest |
| `FilesAreKept` | `NothingIsLost` | `FileInv`: a step that alone changes files is, at each system call of a copy or a move, on its path (`OnPath`): every file of the source is whole at its old name, or its copy is complete and only then is the name removed; an attempt that failed leaves the same, so the next one starts from it. For appends, a block that a step has written is in the file it opened, at a place no other append overwrites |

Conditions bound what some of these theorems say. `NothingIsLost` is about a step that
alone changes files (`Alone`), and of copies about those to a new location, as
fs.go:704 has it: a copy onto itself is lost (section 4). `LaterDefineLaterVersion` and
`RunsTakeTheLatest` are about lists that are not cut, and the first about defines that
can read theirs. `BackoffIsIntended` is about products that fit and, as the code and the
documents differ on it, not about `none`. `ReloadsAreApplied` excepts a reload that read
the settings while an install was at work on them: TLC finds a behaviour for each of its
exceptions but `pidFile # p`, which takes more processes than the three of the run. The assumptions of the modules are about the shape of inputs only:
`FileActionsAssumption` that what a step is asked for is a request the actions accept,
`InterpolationAssumption` that values are closed under their fields and that no
reference is empty, `StepGraphAssumption` and `FailuresAssumption` that bounds are
numbers.

### Proofs about recursive definitions

The operators of the algorithms are recursive functions: a queue that turns, depths one
after another, a product that doubles. TLAPS cannot instantiate the library's theorems on
induction, which take a predicate as a parameter. `DataLemmas` derives from the
well-foundedness of the naturals (`WFMin`, over sets) the forms that take a set in its
place: `BoundedInduction` for the set of the numbers where a claim holds, and
`BoundedRecursion` for the list of values made one from the other. A recursive function
is a CHOOSE, so each proof first shows that such a list exists (`KahnRunExists`,
`DepthRunExists`, `VisitGoes`, `TraversePasses`), hence that the function is one, and
then goes by induction over its length. The state machines over these operators then
have short invariants.

TLC alone checks every liveness property: fairness and ENABLED are beyond the prover.
Every safety invariant of the passing runs, and each of their action properties but
those of liveness, is stated by a theorem above.

## 6. Not modelled

* `Extend` (the mutation of a running definition) and `Status` (a read) of the
  executor. Extend rewrites the definition that the constants `Steps` and `Level`
  stand for.
* Flow steps inside flow steps: the recursion is the same code on the same channel.
* A branch goroutine of a parallel step that panics: it takes the process with it,
  which is a crash of `WorkflowExecutor`.
* What a write of the store fails for other than its context (disk full), but in the
  calls that define and run templates.
* The error of closing a copied file, which fs.go:795 ignores.
* Process isolation (cgroups and process groups: calls of the operating system),
  the secrets vault (encryption around one table), diagrams (layout of text and
  images), identity and logging: no protocol of their own.
* JSON-schema and semantic validation: shape of documents; nothing but the tests
  calls the validator. The three expression languages are libraries.
* Downloading, verifying and replacing the binary in `opcode update`, the questions
  of `opcode install` and the wiring of the parts in `main`: I/O in sequence.
* Actions that only compute an answer from their params (crypto, expr, assert, fs
  reads), queries of the store, pages of the panel, and the filters of opcode.query.
* Migrations: run once, before anything else.

## 7. What could follow

`ExecutorFollowsLifecycle` with fallbacks, which `WorkflowLifecycle` would have to name;
the executor's `Level` as what `LevelsAlwaysRespectWaits` gives, so that `LevelsInOrder`
speaks of the definition itself; Extend, with a definition that grows; and a proof by
hand of the liveness properties from the invariants here.
