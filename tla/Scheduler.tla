------------------------------ MODULE Scheduler ------------------------------
(***************************************************************************)
(* The scheduler of internal/scheduler: a loop that looks for due jobs at  *)
(* every tick and, when the server starts, RecoverMissed, which does the   *)
(* same next to it.  Both read the list of jobs first and run what was due *)
(* in it one after the other, later.  The rows of the jobs are in the      *)
(* store and outlive the process; the panel edits them once it serves.     *)
(* Time is counted in ticks; NoTime, before every time, is NULL.           *)
(***************************************************************************)
EXTENDS Integers

CONSTANTS ScheduledJobs,        \* ids of jobs
          Period,               \* [ScheduledJobs -> ticks between two runs]
          BadCron,              \* jobs whose expression does not parse
          Interactive,          \* jobs whose run may wait for good: for a signal that
                                \* an agent sends through the server
          MaxTime,              \* bound: ticks
          MaxBoots              \* bound: starts of the process after the first

NoTime == -1
NoJob == "none"
Scanners == {"loop", "recover"}

ASSUME SchedulerAssumption ==
  /\ NoJob \notin ScheduledJobs
  /\ Period \in [ScheduledJobs -> Nat \ {0}] /\ BadCron \subseteq ScheduledJobs
  /\ Interactive \subseteq ScheduledJobs /\ MaxTime \in Nat /\ MaxBoots \in Nat

VARIABLES
  jobs,      \* the rows of scheduled_jobs
  clock,     \* the time
  tickReady, \* the ticker's channel, of capacity one, is full
  phase,     \* of the process
  boots,     \* starts so far
  scan,      \* the loop's tick and RecoverMissed
  inflight,  \* Scheduler.inflight
  handled    \* history: runs that ended, as <<job, now of the scan>>; of a job
             \* the last one and the one its row is about

schedulerVars ==
  <<jobs, clock, tickReady, phase, boots, scan, inflight, handled>>

IdleScan == [pc |-> "idle", list |-> {}, now |-> NoTime, job |-> NoJob]
NoRow == [state |-> "absent", next |-> NoTime, last |-> NoTime]

SchedulerInit ==
  /\ jobs = [j \in ScheduledJobs |-> NoRow]
  /\ clock = 0 /\ tickReady = TRUE
  /\ phase = "starting" /\ boots = 0
  /\ scan = [s \in Scanners |-> IdleScan]
  /\ inflight = {} /\ handled = {}

-----------------------------------------------------------------------------
(* Scans. *)

ContextLive == phase \in {"starting", "serving"}
Up == phase \in {"starting", "serving", "stopping"}
ScanAt(s, label) == Up /\ scan[s].pc = label

\* CalculateNextRun: the first time of the expression after `from'.
CalculateNextRun(j, from) == (from \div Period[j] + 1) * Period[j]

ListScheduledJobs == {j \in ScheduledJobs : jobs[j].state = "enabled"}

\* A row that was deleted is not found.
UpdateScheduledJob(j, now) ==
  IF jobs[j].state \in {"enabled", "disabled"}
  THEN [jobs EXCEPT ![j].last = now, ![j].next = CalculateNextRun(j, now)]
  ELSE jobs

\* tick runs what has no next time or one that has come, RecoverMissed what
\* has one that has passed.
DueFor(s, j) ==
  IF s = "loop" THEN jobs[j].next <= clock
                ELSE jobs[j].next # NoTime /\ jobs[j].next < clock

\* The head of tick and RecoverMissed: the list and now, one after the other
\* in the code; no list if the context is gone.
ListDue(s) ==
  /\ ScanAt(s, "idle")
  /\ s = "loop" => tickReady
  /\ tickReady' = (tickReady /\ s # "loop")
  /\ scan' = [scan EXCEPT ![s] =
       [pc |-> "scan", now |-> clock, job |-> NoJob,
        list |-> IF ContextLive THEN {j \in ListScheduledJobs : DueFor(s, j)} ELSE {}]]
  /\ UNCHANGED <<jobs, clock, phase, boots, inflight, handled>>

\* Faulty: the claim is not looked at.
TakeUnclaimed(s, j) ==
  /\ ScanAt(s, "scan") /\ j \in scan[s].list
  /\ inflight' = inflight \cup {j}
  /\ scan' = [scan EXCEPT ![s].pc = "run", ![s].job = j, ![s].list = @ \ {j}]
  /\ UNCHANGED <<jobs, clock, tickReady, phase, boots, handled>>

\* tryAcquire: a job that the other scan is running is passed over.
TakeJob(s, j) ==
  /\ ScanAt(s, "scan") /\ j \in scan[s].list
  /\ IF j \in inflight
     THEN /\ scan' = [scan EXCEPT ![s].list = @ \ {j}]
          /\ UNCHANGED inflight
     ELSE /\ inflight' = inflight \cup {j}
          /\ scan' = [scan EXCEPT ![s].pc = "run", ![s].job = j,
                                  ![s].list = @ \ {j}]
  /\ UNCHANGED <<jobs, clock, tickReady, phase, boots, handled>>

\* Faulty: the next time is stored before the run.
UpdateFirst(s) ==
  /\ ScanAt(s, "run")
  /\ jobs' = UpdateScheduledJob(scan[s].job, scan[s].now)
  /\ scan' = [scan EXCEPT ![s].pc = "update"]
  /\ UNCHANGED <<clock, tickReady, phase, boots, inflight, handled>>

\* runJob: RunFromTemplate returns, or the parameters do not parse.
RunJob(s) ==
  /\ ScanAt(s, "run")
  /\ scan[s].job \in Interactive => phase # "starting"
  /\ handled' = {h \in handled : h[1] = scan[s].job => h[2] = jobs[h[1]].last}
                  \cup {<<scan[s].job, scan[s].now>>}
  /\ scan' = [scan EXCEPT ![s].pc = "update"]
  /\ UNCHANGED <<jobs, clock, tickReady, phase, boots, inflight>>

\* Faulty: the run is not recorded.
RecordNothing(s) ==
  /\ ScanAt(s, "update")
  /\ scan' = [scan EXCEPT ![s].pc = "release"]
  /\ UNCHANGED <<jobs, clock, tickReady, phase, boots, inflight, handled>>

\* updateJobStatus: nothing is stored if the expression does not parse or the
\* context is gone; `now' is that of the scan.
UpdateJobStatus(s) ==
  /\ ScanAt(s, "update")
  /\ jobs' = IF scan[s].job \notin BadCron /\ ContextLive
             THEN UpdateScheduledJob(scan[s].job, scan[s].now)
             ELSE jobs
  /\ scan' = [scan EXCEPT ![s].pc = "release"]
  /\ UNCHANGED <<clock, tickReady, phase, boots, inflight, handled>>

ReleaseJob(s) ==
  /\ ScanAt(s, "release")
  /\ inflight' = inflight \ {scan[s].job}
  /\ scan' = [scan EXCEPT ![s].pc = "scan", ![s].job = NoJob]
  /\ UNCHANGED <<jobs, clock, tickReady, phase, boots, handled>>

\* The end of a tick, or of RecoverMissed, after which main serves.
EndScan(s) ==
  /\ ScanAt(s, "scan") /\ scan[s].list = {}
  /\ scan' = [scan EXCEPT ![s].pc = IF s = "loop" THEN "idle" ELSE "ended",
                          ![s].now = NoTime]
  /\ phase' = IF s = "recover" THEN "serving" ELSE phase
  /\ UNCHANGED <<jobs, clock, tickReady, boots, inflight, handled>>

\* Faulty: the loop waits for ticks only.
LoopIgnoresContext ==
  /\ ScanAt("loop", "idle") /\ phase = "stopping" /\ ~tickReady
  /\ UNCHANGED schedulerVars

LoopEnds ==
  /\ ScanAt("loop", "idle") /\ phase = "stopping"
  /\ scan' = [scan EXCEPT !["loop"].pc = "ended"]
  /\ UNCHANGED <<jobs, clock, tickReady, phase, boots, inflight, handled>>

-----------------------------------------------------------------------------
(* The panel. *)

\* CreateScheduledJob without a next time: due at the next tick.
CreateJob(j, state) ==
  /\ phase = "serving" /\ jobs[j].state = "absent"
  /\ jobs' = [jobs EXCEPT ![j].state = state]
  /\ UNCHANGED <<clock, tickReady, phase, boots, scan, inflight, handled>>

ToggleJob(j, state) ==
  /\ phase = "serving" /\ jobs[j].state \in {"enabled", "disabled"} \ {state}
  /\ jobs' = [jobs EXCEPT ![j].state = state]
  /\ UNCHANGED <<clock, tickReady, phase, boots, scan, inflight, handled>>

\* Ids are random: a deleted one is not used again.
DeleteJob(j) ==
  /\ phase = "serving" /\ jobs[j].state \in {"enabled", "disabled"}
  /\ jobs' = [jobs EXCEPT ![j].state = "deleted"]
  /\ UNCHANGED <<clock, tickReady, phase, boots, scan, inflight, handled>>

-----------------------------------------------------------------------------
(* The process and time. *)

\* A minute passes; the ticker's value waits for the loop, a second one is
\* dropped.  After MaxTime only ticks go on.
Minute ==
  /\ clock < MaxTime \/ ~tickReady
  /\ clock' = IF clock < MaxTime THEN clock + 1 ELSE clock
  /\ tickReady' = TRUE
  /\ UNCHANGED <<jobs, phase, boots, scan, inflight, handled>>

\* SIGTERM is handled only after RecoverMissed has returned.
BeginShutdown ==
  /\ phase = "serving"
  /\ phase' = "stopping"
  /\ UNCHANGED <<jobs, clock, tickReady, boots, scan, inflight, handled>>

StopReturns ==
  /\ phase = "stopping" /\ scan["loop"].pc = "ended"
  /\ phase' = "stopped"
  /\ UNCHANGED <<jobs, clock, tickReady, boots, scan, inflight, handled>>

Crash ==
  /\ Up
  /\ phase' = "down"
  /\ scan' = [s \in Scanners |-> IdleScan] /\ inflight' = {}
  /\ UNCHANGED <<jobs, clock, tickReady, boots, handled>>

Boot ==
  /\ phase \in {"stopped", "down"} /\ boots < MaxBoots
  /\ phase' = "starting" /\ boots' = boots + 1
  /\ scan' = [s \in Scanners |-> IdleScan] /\ inflight' = {}
  /\ tickReady' = TRUE
  /\ UNCHANGED <<jobs, clock, handled>>

-----------------------------------------------------------------------------

ScanStep(s) ==
  \/ ListDue(s) \/ RunJob(s) \/ UpdateJobStatus(s) \/ ReleaseJob(s)
  \/ EndScan(s) \/ \E j \in ScheduledJobs : TakeJob(s, j)

SchedulerNext ==
  \/ \E s \in Scanners : ScanStep(s)
  \/ LoopEnds \/ Minute \/ BeginShutdown \/ StopReturns \/ Crash \/ Boot
  \/ \E j \in ScheduledJobs : DeleteJob(j)
  \/ \E j \in ScheduledJobs, state \in {"enabled", "disabled"} :
       CreateJob(j, state) \/ ToggleJob(j, state)

SchedulerSpec == SchedulerInit /\ [][SchedulerNext]_schedulerVars

\* A run that waits for a signal returns when there is one, if ever, or when its
\* context is cancelled: the wait has no timeout (executor_flow.go:474-502).  One
\* whose nested workflows wait for a slot of the pool (PoolNested) is no different.
WaitsForSignal(s) ==
  ScanAt(s, "run") /\ scan[s].job \in Interactive /\ ContextLive

\* Goroutines run, and time passes; the loop's select takes the end of its
\* context sooner or later, whatever ticks are ready.  The runs of the other
\* jobs return.
SchedulerFairness ==
  /\ \A s \in Scanners : WF_schedulerVars(ScanStep(s) /\ ~WaitsForSignal(s))
  /\ SF_schedulerVars(LoopEnds) /\ WF_schedulerVars(Minute)
  /\ WF_schedulerVars(StopReturns)

-----------------------------------------------------------------------------
(* Properties. *)

Phases == {"starting", "serving", "stopping", "stopped", "down"}
ScanLabels == {"idle", "scan", "run", "update", "release", "ended"}
JobStates == {"absent", "enabled", "disabled", "deleted"}
Times == Nat \cup {NoTime}

SchedulerTypeOK ==
  /\ jobs \in [ScheduledJobs -> [state : JobStates, next : Times \ {0}, last : Times]]
  /\ clock \in 0..MaxTime /\ tickReady \in BOOLEAN
  /\ phase \in Phases /\ boots \in 0..MaxBoots
  /\ scan \in [Scanners -> [pc : ScanLabels, list : SUBSET ScheduledJobs,
                            now : Times, job : ScheduledJobs \cup {NoJob}]]
  /\ inflight \subseteq ScheduledJobs
  /\ handled \subseteq ScheduledJobs \X Times

Holds(s, j) ==
  scan[s].pc \in {"run", "update", "release"} /\ scan[s].job = j

\* The tick and RecoverMissed never run one job at the same time, a claim that
\* nobody holds is not left behind, and once Stop has returned nothing runs
\* (scheduler.go:152-168, 179-195).
OneRunAtATime ==
  /\ \A j \in ScheduledJobs : ~(Holds("loop", j) /\ Holds("recover", j))
  /\ inflight = {j \in ScheduledJobs : \E s \in Scanners : Holds(s, j)}
  /\ phase = "stopped" => inflight = {}

\* No due time passes unserved: the times in a row are those of a run that has
\* ended, whatever crash, shutdown or stale list came between
\* (scheduler.go:130-150 stores them after the run).
PassedMeansRan ==
  \A j \in ScheduledJobs :
    jobs[j].next # NoTime
      => /\ <<j, jobs[j].last>> \in handled
         /\ jobs[j].next = CalculateNextRun(j, jobs[j].last)

Due(j) == j \in ListScheduledJobs /\ DueFor("loop", j)

\* A due job of a server that goes on serving is run and gets its next time,
\* whatever edits, dropped ticks and the scan of RecoverMissed come between,
\* unless a run before it in the tick never returns (scheduler.go:65-108).
DueIsServed ==
  \A j \in ScheduledJobs \ BadCron :
    phase = "serving" /\ Due(j)
      ~> phase # "serving" \/ ~Due(j) \/ []WaitsForSignal("loop")

\* workflow-schema.md:296, "executes due jobs": a due job is run.  Not kept: the
\* tick runs one job after the other, and one that waits for a signal holds up
\* the loop.
DueIsAlwaysServed ==
  \A j \in ScheduledJobs \ BadCron :
    phase = "serving" /\ Due(j) ~> phase # "serving" \/ ~Due(j)

\* Stop returns (scheduler.go:179-195 waits for the loop).
StopEnds == phase = "stopping" ~> phase # "stopping"

\* The comment of RecoverMissed, "checks for jobs that missed their
\* next_run_at and runs them once" (scheduler.go:197): a job that is run is due.
MissedRunsOnce ==
  \A s \in Scanners, j \in ScheduledJobs :
    scan[s].pc = "run" /\ scan[s].job = j => jobs[j].next <= scan[s].now

\* A time that passed does not come back: not kept, the slower scan stores the
\* next time of its own, earlier, now (scheduler.go:139-150).
NextRunAdvances ==
  [][\A j \in ScheduledJobs : jobs'[j].next >= jobs[j].next]_schedulerVars

\* The server gets to serve: not kept if a missed job waits for a signal, which
\* only the server could bring it (main.go:215 comes before main.go:274).
ServerServes == phase = "starting" ~> phase # "starting"
=============================================================================
