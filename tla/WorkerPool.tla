----------------------------- MODULE WorkerPool -----------------------------
(***************************************************************************)
(* internal/engine/worker.go: the one bounded pool all workflows share.    *)
(* Submit checks `closed', waits for a slot, checks `closed' again under   *)
(* the lock and starts a goroutine; Shutdown closes the pool and waits for *)
(* the WaitGroup.  Each lock section, channel operation and atomic counter *)
(* is a step.                                                              *)
(*                                                                         *)
(* A job is one call of Submit together with the function it submits.  The *)
(* function of a job with a Child is a workflow.run action: it submits the *)
(* child to the same pool and waits for the child's function to return.    *)
(***************************************************************************)
EXTENDS Integers, FiniteSets

CONSTANTS
  Jobs,            \* the jobs submitted to the pool
  ConfiguredSize,  \* the size NewWorkerPool is asked for
  Child,           \* the job that a job's function submits, or None
  Cancellable,     \* jobs whose context may be cancelled while they wait
  MayPanic,        \* jobs whose function may panic
  Closers,         \* goroutines that call Shutdown
  None

ASSUME PoolAssumption ==
  /\ IsFiniteSet(Jobs) /\ None \notin Jobs
  /\ ConfiguredSize \in Int
  /\ Child \in [Jobs -> Jobs \cup {None}]
  /\ Cancellable \subseteq Jobs /\ MayPanic \subseteq Jobs

VARIABLES
  sub,      \* where the Submit of each job is
  work,     \* where the goroutine of each job is
  sem,      \* len(p.sem), the slots taken
  wg,       \* the counter of p.wg
  closed,   \* p.closed; p.done is closed in the same section
  metrics,  \* p.metrics
  closer    \* where each Shutdown is

poolVars == <<sub, work, sem, wg, closed, metrics, closer>>

\* NewWorkerPool: at least one slot.
Size == IF ConfiguredSize <= 0 THEN 1 ELSE ConfiguredSize

Init ==
  /\ sub = [j \in Jobs |-> "idle"]
  /\ work = [j \in Jobs |-> "none"]
  /\ sem = 0 /\ wg = 0 /\ closed = FALSE
  /\ metrics = [Active |-> 0, Completed |-> 0, Failed |-> 0, Panics |-> 0]
  /\ closer = [k \in Closers |-> "idle"]

\* The function of the job has returned or panicked.
Returned(j) == work[j] \in {"inactive", "release", "leave", "finished"}

\* Who calls Submit for j is ready to: a root at any time, a child when the
\* function of its parent runs.
CallerReady(j) == \A p \in Jobs : Child[p] = j => work[p] = "running"

\* The function of j waits for its child, if Submit accepted it.
ChildDone(j) ==
  Child[j] # None => sub[Child[j]] = "rejected" \/ Returned(Child[j])

-----------------------------------------------------------------------------
(* Submit. *)

\* The first look at p.closed.
Submit(j) ==
  /\ sub[j] = "idle" /\ CallerReady(j)
  /\ sub' = [sub EXCEPT ![j] = IF closed THEN "rejected" ELSE "select"]
  /\ UNCHANGED <<work, sem, wg, closed, metrics, closer>>

\* Faulty: no slot is taken.
AcquireUncounted(j) ==
  /\ sub[j] = "select"
  /\ sub' = [sub EXCEPT ![j] = "slot"]
  /\ UNCHANGED <<work, sem, wg, closed, metrics, closer>>

\* The select: a slot ...
Acquire(j) ==
  /\ sub[j] = "select" /\ sem < Size
  /\ sem' = sem + 1
  /\ sub' = [sub EXCEPT ![j] = "slot"]
  /\ UNCHANGED <<work, wg, closed, metrics, closer>>

\* ... or the context is done, or the pool is shut down.
GiveUp(j) ==
  /\ sub[j] = "select"
  /\ closed \/ j \in Cancellable
  /\ sub' = [sub EXCEPT ![j] = "rejected"]
  /\ UNCHANGED <<work, sem, wg, closed, metrics, closer>>

\* Faulty: the second look at p.closed is missing.
StartUnchecked(j) ==
  /\ sub[j] = "slot"
  /\ wg' = wg + 1
  /\ metrics' = [metrics EXCEPT !.Active = @ + 1]
  /\ work' = [work EXCEPT ![j] = "running"]
  /\ sub' = [sub EXCEPT ![j] = "accepted"]
  /\ UNCHANGED <<sem, closed, closer>>

\* The second look at p.closed, under the lock that also counts the job.
Start(j) ==
  /\ sub[j] = "slot"
  /\ \/ /\ closed
        /\ sub' = [sub EXCEPT ![j] = "return_slot"]
        /\ UNCHANGED <<work, wg, metrics>>
     \/ /\ ~closed
        /\ wg' = wg + 1
        /\ metrics' = [metrics EXCEPT !.Active = @ + 1]
        /\ work' = [work EXCEPT ![j] = "running"]
        /\ sub' = [sub EXCEPT ![j] = "accepted"]
  /\ UNCHANGED <<sem, closed, closer>>

ReturnSlot(j) ==
  /\ sub[j] = "return_slot"
  /\ sem' = sem - 1
  /\ sub' = [sub EXCEPT ![j] = "rejected"]
  /\ UNCHANGED <<work, wg, closed, metrics, closer>>

-----------------------------------------------------------------------------
(* The goroutine. *)

\* The function returns nil or an error; the counter follows.
Finish(j) ==
  /\ work[j] = "running" /\ ChildDone(j)
  /\ \E counter \in {"Completed", "Failed"} :
       metrics' = [metrics EXCEPT ![counter] = @ + 1]
  /\ work' = [work EXCEPT ![j] = "inactive"]
  /\ UNCHANGED <<sub, sem, wg, closed, closer>>

\* The deferred recover counts a panic, then a failure.
Panic(j) ==
  /\ work[j] = "running" /\ ChildDone(j) /\ j \in MayPanic
  /\ metrics' = [metrics EXCEPT !.Panics = @ + 1]
  /\ work' = [work EXCEPT ![j] = "panicked"]
  /\ UNCHANGED <<sub, sem, wg, closed, closer>>

Recover(j) ==
  /\ work[j] = "panicked"
  /\ metrics' = [metrics EXCEPT !.Failed = @ + 1]
  /\ work' = [work EXCEPT ![j] = "inactive"]
  /\ UNCHANGED <<sub, sem, wg, closed, closer>>

Deactivate(j) ==
  /\ work[j] = "inactive"
  /\ metrics' = [metrics EXCEPT !.Active = @ - 1]
  /\ work' = [work EXCEPT ![j] = "release"]
  /\ UNCHANGED <<sub, sem, wg, closed, closer>>

\* Faulty: the goroutine keeps its slot.
ReleaseNothing(j) ==
  /\ work[j] = "release"
  /\ work' = [work EXCEPT ![j] = "leave"]
  /\ UNCHANGED <<sub, sem, wg, closed, metrics, closer>>

Release(j) ==
  /\ work[j] = "release"
  /\ sem' = sem - 1
  /\ work' = [work EXCEPT ![j] = "leave"]
  /\ UNCHANGED <<sub, wg, closed, metrics, closer>>

Leave(j) ==
  /\ work[j] = "leave"
  /\ wg' = wg - 1
  /\ work' = [work EXCEPT ![j] = "finished"]
  /\ UNCHANGED <<sub, sem, closed, metrics, closer>>

-----------------------------------------------------------------------------
(* Shutdown. *)

\* Only the first caller waits; a later one returns at once.
Shutdown(k) ==
  /\ closer[k] = "idle"
  /\ closed' = TRUE
  /\ closer' = [closer EXCEPT ![k] = IF closed THEN "dismissed" ELSE "waiting"]
  /\ UNCHANGED <<sub, work, sem, wg, metrics>>

ShutdownReturns(k) ==
  /\ closer[k] = "waiting" /\ wg = 0
  /\ closer' = [closer EXCEPT ![k] = "returned"]
  /\ UNCHANGED <<sub, work, sem, wg, closed, metrics>>

\* Nothing is left to do.
Quiescent ==
  /\ \A j \in Jobs : \/ sub[j] \in {"accepted", "rejected"}
                     \/ sub[j] = "idle" /\ ~CallerReady(j)
  /\ \A j \in Jobs : work[j] \in {"none", "finished"}
  /\ \A k \in Closers : closer[k] \in {"dismissed", "returned"}

AllDone == Quiescent /\ UNCHANGED poolVars

-----------------------------------------------------------------------------

SubmitStep(j) == Submit(j) \/ Acquire(j) \/ GiveUp(j) \/ Start(j) \/ ReturnSlot(j)

WorkStep(j) ==
  \/ Finish(j) \/ Panic(j) \/ Recover(j)
  \/ Deactivate(j) \/ Release(j) \/ Leave(j)

CloserStep(k) == Shutdown(k) \/ ShutdownReturns(k)

Next ==
  \/ \E j \in Jobs : SubmitStep(j) \/ WorkStep(j)
  \/ \E k \in Closers : CloserStep(k)
  \/ AllDone

Spec == Init /\ [][Next]_poolVars

\* Goroutines that can run do; whether and when Shutdown is called is free.
\* The select is fair to a waiting Submit that a slot is offered to again and
\* again: the channel serves its waiters first in, first out.
PoolFairness ==
  /\ \A j \in Jobs : /\ WF_poolVars(SubmitStep(j)) /\ WF_poolVars(WorkStep(j))
                     /\ SF_poolVars(Acquire(j))
  /\ \A k \in Closers : WF_poolVars(ShutdownReturns(k))

FairSpec == Spec /\ PoolFairness

-----------------------------------------------------------------------------
(* Properties. *)

SubLabels == {"idle", "select", "slot", "return_slot", "accepted", "rejected"}
WorkLabels == {"none", "running", "panicked", "inactive", "release", "leave",
               "finished"}

TypeOK ==
  /\ sub \in [Jobs -> SubLabels]
  /\ work \in [Jobs -> WorkLabels]
  /\ sem \in 0..Size /\ wg \in Nat /\ closed \in BOOLEAN
  /\ metrics \in [Active : Int, Completed : Int, Failed : Int, Panics : Int]
  /\ closer \in [Closers -> {"idle", "waiting", "dismissed", "returned"}]

\* The jobs a slot is taken for, in Submit or in the goroutine.
Holders ==
  {j \in Jobs : sub[j] \in {"slot", "return_slot"}
                \/ work[j] \in {"running", "panicked", "inactive", "release"}}

\* The jobs the WaitGroup counts.
Counted == {j \in Jobs : work[j] \notin {"none", "finished"}}

Running == {j \in Jobs : work[j] = "running"}

\* No slot is lost and none is given back twice, through a rejected Submit, a
\* race with Shutdown or a panic; the WaitGroup counts just what still runs.
SlotsAccounted ==
  /\ sem = Cardinality(Holders)
  /\ wg = Cardinality(Counted)

\* The pool is bounded (worker.go:21): no more functions run at a time than it
\* has slots, whichever of Submit's races with Shutdown a slot went through.
BoundedConcurrency == Cardinality(Running) <= Size

\* Shutdown "waits for all active work to complete" (worker.go:102-115): when
\* the call that closed the pool has returned, nothing runs, and since this
\* holds in every later state as well, no late Submit slips a job in.
ShutdownDrains ==
  \A k \in Closers : closer[k] = "returned" => Counted = {}

\* The counters add up once the pool is quiescent: no active job, and every
\* accepted one counted exactly once as completed or failed.
MetricsBalance ==
  Quiescent =>
    /\ metrics.Active = 0
    /\ metrics.Completed + metrics.Failed
         = Cardinality({j \in Jobs : sub[j] = "accepted"})
    /\ metrics.Panics <= metrics.Failed

\* Submit returns: it blocks at capacity, but not for ever (worker.go:42-45).
SubmitReturns ==
  \A j \in Jobs : sub[j] = "select" ~> sub[j] \in {"accepted", "rejected"}

\* A Shutdown that has closed the pool returns.
ShutdownEnds ==
  \A k \in Closers : closer[k] = "waiting" ~> closer[k] = "returned"

\* Every call returns, a Submit that waits for a slot and a Shutdown that waits
\* for the jobs, whichever of them panic, are given up or are rejected late
\* (worker.go:45-115), as long as no job waits for more slots than there are.
CallsReturn == SubmitReturns /\ ShutdownEnds
=============================================================================
