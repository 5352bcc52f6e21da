--------------------------- MODULE BackgroundProofs ---------------------------
(*****************************************************************************)
(* What holds of the work in the background for any number of actors. The    *)
(* pool: for any number of jobs, of slots and of callers of Shutdown, the    *)
(* semaphore and the WaitGroup each equal the size of the set of jobs they   *)
(* stand for, and every action moves both together. The plugins: for any     *)
(* number of calls of LoadPlugin and StopPlugin, of processes and of         *)
(* requests, no two calls take the same line, and a call that has the plugin *)
(* to itself gets its own answer.                                            *)
(*****************************************************************************)
EXTENDS WorkerPool, Plugins, PluginCalls, FiniteSetTheorems, TLAPS

-----------------------------------------------------------------------------
(* Worker pool. *)

\* A goroutine exists just for the jobs that Submit accepted.
Paired == \A j \in Jobs : work[j] # "none" <=> sub[j] = "accepted"

\* Shutdown closes the pool before it waits.
ClosedFirst == \A k \in Closers : closer[k] # "idle" => closed

IInv == TypeOK /\ Paired /\ SlotsAccounted /\ ClosedFirst /\ ShutdownDrains

-----------------------------------------------------------------------------

\* NewWorkerPool makes at least one slot.
LEMMA SizePositive == Size \in Nat /\ Size >= 1
BY PoolAssumption DEF Size

\* Any set of jobs can be counted.
LEMMA JobSets ==
  ASSUME NEW S \in SUBSET Jobs
  PROVE  /\ IsFiniteSet(S)
         /\ Cardinality(S) \in Nat
         /\ Cardinality(S) = 0 <=> S = {}
<1>1. IsFiniteSet(S)
  BY FS_Subset, PoolAssumption
<1> QED
  BY <1>1, FS_CardinalityType, FS_EmptySet

\* A job that enters a set of jobs, or leaves it, changes its size by one.
LEMMA Enters ==
  ASSUME NEW S \in SUBSET Jobs, NEW j \in Jobs, j \notin S
  PROVE  Cardinality(S \cup {j}) = Cardinality(S) + 1
BY JobSets, FS_AddElement

LEMMA Leaves ==
  ASSUME NEW S \in SUBSET Jobs, NEW j \in S
  PROVE  Cardinality(S \ {j}) = Cardinality(S) - 1
BY JobSets, FS_RemoveElement

-----------------------------------------------------------------------------

LEMMA InitIInv == Init => IInv
<1> SUFFICES ASSUME Init PROVE IInv
  OBVIOUS
<1>1. Holders = {} /\ Counted = {}
  BY DEF Init, Holders, Counted
<1>2. SlotsAccounted
  BY <1>1, FS_EmptySet DEF Init, SlotsAccounted
<1>3. TypeOK
  <2>1. sem \in 0..Size /\ wg \in Nat
    BY SizePositive DEF Init
  <2>5. closed \in BOOLEAN
    BY DEF Init
  <2>2. sub \in [Jobs -> SubLabels] /\ work \in [Jobs -> WorkLabels]
    BY DEF Init, SubLabels, WorkLabels
  <2>3. metrics \in [Active : Int, Completed : Int, Failed : Int, Panics : Int]
    BY DEF Init
  <2>4. closer \in [Closers -> {"idle", "waiting", "dismissed", "returned"}]
    BY DEF Init
  <2> QED
    BY <2>1, <2>2, <2>3, <2>4, <2>5 DEF TypeOK
<1>4. Paired /\ ClosedFirst /\ ShutdownDrains
  BY DEF Init, Paired, ClosedFirst, ShutdownDrains
<1> QED
  BY <1>2, <1>3, <1>4 DEF IInv

-----------------------------------------------------------------------------

\* Submit, GiveUp and the deferred bookkeeping move no slot and no count.
LEMMA SubmitKeeps ==
  ASSUME IInv, NEW j \in Jobs, Submit(j) \/ GiveUp(j)
  PROVE  IInv'
<1>1. /\ sub' \in [Jobs -> SubLabels] /\ sub'[j] \in {"select", "rejected"}
      /\ \A i \in Jobs \ {j} : sub'[i] = sub[i]
      /\ sub[j] \in {"idle", "select"}
      /\ UNCHANGED <<work, sem, wg, closed, metrics, closer>>
  BY DEF IInv, TypeOK, SubLabels, Submit, GiveUp
<1>2. TypeOK'
  BY <1>1 DEF IInv, TypeOK
<1>3. Paired'
  BY <1>1 DEF IInv, Paired
<1>4. Holders' = Holders /\ Counted' = Counted
  BY <1>1 DEF Holders, Counted
<1>5. SlotsAccounted' /\ ClosedFirst' /\ ShutdownDrains'
  BY <1>1, <1>4 DEF IInv, SlotsAccounted, ClosedFirst, ShutdownDrains
<1> QED
  BY <1>2, <1>3, <1>5 DEF IInv

LEMMA AcquireKeeps ==
  ASSUME IInv, NEW j \in Jobs, Acquire(j)
  PROVE  IInv'
<1> USE DEF Acquire
<1>1. TypeOK'
  <2>1. sub' \in [Jobs -> SubLabels]
    BY DEF IInv, TypeOK, SubLabels
  <2>2. sem' \in 0..Size
    BY SizePositive DEF IInv, TypeOK
  <2> QED
    BY <2>1, <2>2 DEF IInv, TypeOK
<1>2. Paired' /\ work[j] = "none"
  BY DEF IInv, Paired, TypeOK
<1>3. Holders' = Holders \cup {j} /\ j \notin Holders /\ Counted' = Counted
  BY <1>2 DEF IInv, TypeOK, Holders, Counted
<1>4. SlotsAccounted'
  BY <1>3, Enters DEF IInv, SlotsAccounted, Holders
<1>5. ClosedFirst' /\ ShutdownDrains'
  BY <1>3 DEF IInv, ClosedFirst, ShutdownDrains
<1> QED
  BY <1>1, <1>2, <1>4, <1>5 DEF IInv

\* The second look at p.closed is what ShutdownDrains rests on: a job is only
\* counted while no Shutdown can have returned.
LEMMA StartKeeps ==
  ASSUME IInv, NEW j \in Jobs, Start(j)
  PROVE  IInv'
<1>1. CASE closed
  <2>1. /\ sub' = [sub EXCEPT ![j] = "return_slot"] /\ sub[j] = "slot"
        /\ UNCHANGED <<work, sem, wg, closed, metrics, closer>>
    BY <1>1 DEF Start
  <2>2. TypeOK' /\ Paired'
    BY <2>1 DEF IInv, TypeOK, SubLabels, Paired
  <2>3. Holders' = Holders /\ Counted' = Counted
    BY <2>1 DEF IInv, TypeOK, Holders, Counted
  <2> QED
    BY <2>1, <2>2, <2>3 DEF IInv, SlotsAccounted, ClosedFirst, ShutdownDrains
<1>2. CASE ~closed
  <2>1. /\ sub' = [sub EXCEPT ![j] = "accepted"] /\ sub[j] = "slot"
        /\ work' = [work EXCEPT ![j] = "running"]
        /\ wg' = wg + 1
        /\ metrics' = [metrics EXCEPT !.Active = @ + 1]
        /\ UNCHANGED <<sem, closed, closer>>
    BY <1>2 DEF Start
  <2>2. work[j] = "none"
    BY <2>1 DEF IInv, TypeOK, WorkLabels, Paired
  <2>3. TypeOK'
    BY <2>1 DEF IInv, TypeOK, SubLabels, WorkLabels
  <2>4. Paired'
    BY <2>1 DEF IInv, TypeOK, Paired
  <2>5. Holders' = Holders
    BY <2>1 DEF IInv, TypeOK, Holders
  <2>6. Counted' = Counted \cup {j} /\ j \notin Counted
    BY <2>1, <2>2 DEF IInv, TypeOK, Counted
  <2>7. SlotsAccounted'
    BY <2>1, <2>5, <2>6, Enters DEF IInv, SlotsAccounted, Counted
  <2>8. ClosedFirst' /\ ShutdownDrains'
    BY <1>2, <2>1 DEF IInv, TypeOK, ClosedFirst, ShutdownDrains
  <2> QED
    BY <2>3, <2>4, <2>7, <2>8 DEF IInv
<1> QED
  BY <1>1, <1>2

LEMMA ReturnSlotKeeps ==
  ASSUME IInv, NEW j \in Jobs, ReturnSlot(j)
  PROVE  IInv'
<1> USE DEF ReturnSlot
<1>1. Holders' = Holders \ {j} /\ j \in Holders /\ Counted' = Counted
  BY DEF IInv, TypeOK, Paired, Holders, Counted
<1>2. SlotsAccounted'
  BY <1>1, Leaves DEF IInv, SlotsAccounted, Holders
<1>3. TypeOK'
  <2>1. sem - 1 \in 0..Size
    <3>1. Cardinality(Holders \ {j}) \in Nat
      BY JobSets DEF Holders
    <3> QED
      BY <3>1, <1>2, <1>1, SizePositive DEF IInv, TypeOK, SlotsAccounted
  <2> QED
    BY <2>1 DEF IInv, TypeOK, SubLabels
<1>4. Paired' /\ ClosedFirst' /\ ShutdownDrains'
  BY <1>1 DEF IInv, TypeOK, Paired, ClosedFirst, ShutdownDrains
<1> QED
  BY <1>2, <1>3, <1>4 DEF IInv

-----------------------------------------------------------------------------

\* The function returns or panics and the counters follow: the job keeps its
\* slot and stays counted.
LEMMA CountersKeep ==
  ASSUME IInv, NEW j \in Jobs,
         Finish(j) \/ Panic(j) \/ Recover(j) \/ Deactivate(j)
  PROVE  IInv'
<1>1. /\ work[j] \in {"running", "panicked", "inactive"}
      /\ \E l \in {"panicked", "inactive", "release"} :
            work' = [work EXCEPT ![j] = l]
      /\ UNCHANGED <<sub, sem, wg, closed, closer>>
  BY DEF Finish, Panic, Recover, Deactivate
<1>2. metrics' \in [Active : Int, Completed : Int, Failed : Int, Panics : Int]
  <2>1. CASE Finish(j)
    <3>1. PICK counter \in {"Completed", "Failed"} :
            metrics' = [metrics EXCEPT ![counter] = @ + 1]
      BY <2>1 DEF Finish
    <3>2. CASE counter = "Completed"
      BY <3>1, <3>2 DEF IInv, TypeOK
    <3>3. CASE counter = "Failed"
      BY <3>1, <3>3 DEF IInv, TypeOK
    <3> QED
      BY <3>2, <3>3
  <2>2. CASE Panic(j) \/ Recover(j) \/ Deactivate(j)
    BY <2>2 DEF IInv, TypeOK, Panic, Recover, Deactivate
  <2> QED
    BY <2>1, <2>2
<1>3. PICK l \in {"panicked", "inactive", "release"} :
        work' = [work EXCEPT ![j] = l]
  BY <1>1
<1>4. TypeOK'
  BY <1>1, <1>2, <1>3 DEF IInv, TypeOK, WorkLabels
<1>5. Paired' /\ Holders' = Holders /\ Counted' = Counted
  BY <1>1, <1>3 DEF IInv, TypeOK, Paired, Holders, Counted
<1>6. SlotsAccounted' /\ ClosedFirst' /\ ShutdownDrains'
  BY <1>1, <1>5 DEF IInv, SlotsAccounted, ClosedFirst, ShutdownDrains
<1> QED
  BY <1>4, <1>5, <1>6 DEF IInv

\* The slot goes back before the WaitGroup hears of it.
LEMMA ReleaseKeeps ==
  ASSUME IInv, NEW j \in Jobs, Release(j)
  PROVE  IInv'
<1> USE DEF Release
<1>1. Holders' = Holders \ {j} /\ j \in Holders /\ Counted' = Counted
  BY DEF IInv, TypeOK, Paired, Holders, Counted
<1>2. SlotsAccounted'
  BY <1>1, Leaves DEF IInv, SlotsAccounted, Holders
<1>3. TypeOK'
  <2>1. sem - 1 \in 0..Size
    <3>1. Cardinality(Holders \ {j}) \in Nat
      BY JobSets DEF Holders
    <3> QED
      BY <3>1, <1>2, <1>1, SizePositive DEF IInv, TypeOK, SlotsAccounted
  <2> QED
    BY <2>1 DEF IInv, TypeOK, WorkLabels
<1>4. Paired' /\ ClosedFirst' /\ ShutdownDrains'
  BY <1>1 DEF IInv, TypeOK, Paired, ClosedFirst, ShutdownDrains
<1> QED
  BY <1>2, <1>3, <1>4 DEF IInv

LEMMA LeaveKeeps ==
  ASSUME IInv, NEW j \in Jobs, Leave(j)
  PROVE  IInv'
<1> USE DEF Leave
<1>1. Counted' = Counted \ {j} /\ j \in Counted /\ Holders' = Holders
  BY DEF IInv, TypeOK, Paired, Holders, Counted
<1>2. SlotsAccounted'
  BY <1>1, Leaves DEF IInv, SlotsAccounted, Counted
<1>3. TypeOK'
  <2>1. wg - 1 \in Nat
    <3>1. Cardinality(Counted \ {j}) \in Nat
      BY JobSets DEF Counted
    <3> QED
      BY <3>1, <1>1, <1>2 DEF IInv, TypeOK, SlotsAccounted
  <2> QED
    BY <2>1 DEF IInv, TypeOK, WorkLabels
<1>4. Paired' /\ ClosedFirst' /\ ShutdownDrains'
  BY <1>1 DEF IInv, TypeOK, Paired, ClosedFirst, ShutdownDrains
<1> QED
  BY <1>2, <1>3, <1>4 DEF IInv

-----------------------------------------------------------------------------

\* Shutdown returns when the WaitGroup is at zero, so when no job is counted.
LEMMA CloserKeeps ==
  ASSUME IInv, NEW k \in Closers, CloserStep(k)
  PROVE  IInv'
<1>1. /\ UNCHANGED <<sub, work, sem, wg, metrics>>
      /\ closed' = TRUE \/ closed' = closed
      /\ closer' \in
           [Closers -> {"idle", "waiting", "dismissed", "returned"}]
  BY DEF IInv, TypeOK, CloserStep, Shutdown, ShutdownReturns
<1>2. TypeOK'
  <2>1. closed' \in BOOLEAN
    BY <1>1 DEF IInv, TypeOK
  <2> QED
    BY <1>1, <2>1 DEF IInv, TypeOK
<1>3. Holders' = Holders /\ Counted' = Counted
  BY <1>1 DEF Holders, Counted
<1>4. Paired' /\ SlotsAccounted'
  BY <1>1, <1>3 DEF IInv, Paired, SlotsAccounted
<1>5. ClosedFirst' /\ ShutdownDrains'
  <2>1. CASE Shutdown(k)
    BY <2>1, <1>3 DEF IInv, TypeOK, Shutdown, ClosedFirst, ShutdownDrains
  <2>2. CASE ShutdownReturns(k)
    <3>1. Counted = {}
      BY <2>2, JobSets DEF IInv, SlotsAccounted, ShutdownReturns, Counted
    <3> QED
      BY <2>2, <3>1, <1>3
      DEF IInv, TypeOK, ShutdownReturns, ClosedFirst, ShutdownDrains
  <2> QED
    BY <2>1, <2>2 DEF CloserStep
<1> QED
  BY <1>2, <1>4, <1>5 DEF IInv

LEMMA StutterKeeps ==
  ASSUME IInv, UNCHANGED poolVars
  PROVE  IInv'
BY DEF IInv, poolVars, TypeOK, Paired, SlotsAccounted, Holders, Counted,
       ClosedFirst, ShutdownDrains

LEMMA NextKeeps == IInv /\ [Next]_poolVars => IInv'
<1> SUFFICES ASSUME IInv, [Next]_poolVars PROVE IInv'
  OBVIOUS
<1>1. ASSUME NEW j \in Jobs, SubmitStep(j) PROVE IInv'
  BY <1>1, SubmitKeeps, AcquireKeeps, StartKeeps, ReturnSlotKeeps DEF SubmitStep
<1>2. ASSUME NEW j \in Jobs, WorkStep(j) PROVE IInv'
  BY <1>2, CountersKeep, ReleaseKeeps, LeaveKeeps DEF WorkStep
<1>3. ASSUME NEW k \in Closers, CloserStep(k) PROVE IInv'
  BY <1>3, CloserKeeps
<1>4. CASE AllDone \/ UNCHANGED poolVars
  BY <1>4, StutterKeeps DEF AllDone
<1> QED
  BY <1>1, <1>2, <1>3, <1>4 DEF Next

\* The inductive invariant holds in every reachable state.
THEOREM PoolInvariant == Spec => []IInv
BY InitIInv, NextKeeps, PTL DEF Spec

-----------------------------------------------------------------------------

\* TypeOK of the pool for any jobs and sizes: len(p.sem) never leaves 0..cap.
THEOREM PoolTypes == Spec => []TypeOK
<1>1. IInv => TypeOK
  BY DEF IInv
<1> QED
  BY <1>1, PoolInvariant, PTL

\* The slots taken and the WaitGroup are what the running jobs hold
\* (Submit and its deferred function).
THEOREM PoolAccounts == Spec => []SlotsAccounted
<1>1. IInv => SlotsAccounted
  BY DEF IInv
<1> QED
  BY <1>1, PoolInvariant, PTL

\* No more submitted functions run at a time than NewWorkerPool made slots for.
THEOREM PoolIsBounded == Spec => []BoundedConcurrency
<1>1. IInv => BoundedConcurrency
  <2> SUFFICES ASSUME IInv PROVE BoundedConcurrency
    OBVIOUS
  <2>1. Running \subseteq Holders /\ Holders \subseteq Jobs
    BY DEF Running, Holders
  <2>2. Cardinality(Running) <= Cardinality(Holders)
    BY <2>1, JobSets, FS_Subset
  <2>3. Cardinality(Running) \in Nat
    BY <2>1, JobSets
  <2> QED
    BY <2>2, <2>3, SizePositive
    DEF IInv, TypeOK, SlotsAccounted, BoundedConcurrency
<1> QED
  BY <1>1, PoolInvariant, PTL

\* Once a Shutdown that closed the pool has returned no job runs, now or later.
THEOREM PoolDrains == Spec => []ShutdownDrains
<1>1. IInv => ShutdownDrains
  BY DEF IInv
<1> QED
  BY <1>1, PoolInvariant, PTL

-----------------------------------------------------------------------------
(* Plugins. *)

\* The record of a process, of a call of LoadPlugin and of one of StopPlugin.
ProcessType == [alive : BOOLEAN, exited : BOOLEAN,
                ctx : {"none", "live", "done"},
                status : {"none", "starting", "healthy", "crashed", "stopped"},
                errors : Nat,
                loop : {"off", "wait", "report", "backoff", "ended"}]
LoadType == [at : {"idle", "start", "handshake", "publish", "record"},
             proc : Procs \cup {NoProc}]
StopType == [at : {"idle", "cancel", "wait", "update"},
             proc : Procs \cup {NoProc}]

PluginsTypeOK ==
  /\ table \in Procs \cup {NoProc} /\ row \in {"none", "active", "inactive"}
  /\ process \in [Procs -> ProcessType]
  /\ loading \in [Loaders -> LoadType]
  /\ stopping \in [Stoppers -> StopType]
  /\ overlapped \in BOOLEAN

\* A process is started once: by one load, before anything else holds it.
StartedOnce ==
  /\ \A l \in Loaders :
       /\ LoadAt(l, "idle") <=> loading[l].proc = NoProc
       /\ LoadAt(l, "start") => process[loading[l].proc].ctx = "none"
       /\ loading[l].at \in {"handshake", "publish", "record"}
            => process[loading[l].proc].ctx # "none"
  /\ \A l, k \in Loaders :
       loading[l].proc = loading[k].proc => l = k \/ loading[l].proc = NoProc
  /\ table # NoProc => process[table].ctx # "none"
  /\ \A p \in Procs : process[p].ctx = "none" => ~process[p].alive

\* A stop lets go of a process that has exited and has no context.
StopsInOrder ==
  \A s \in Stoppers :
    /\ StopAt(s, "idle") <=> stopping[s].proc = NoProc
    /\ stopping[s].proc # NoProc => process[stopping[s].proc].ctx # "none"
    /\ stopping[s].at \in {"wait", "update"}
         => process[stopping[s].proc].ctx = "done"
    /\ StopAt(s, "update") => ~process[stopping[s].proc].alive

\* Loads that do not overlap find the table empty when they publish, and hold
\* their process until the table or a stop does.
Held(p) == table = p \/ \E s \in Stoppers : stopping[s].proc = p
Runs(p) == process[p].alive \/ process[p].ctx = "live"

LoadsApart ==
  ~overlapped =>
    /\ \A l, k \in Loaders : LoadAt(l, "idle") \/ LoadAt(k, "idle") \/ l = k
    /\ \A l \in Loaders :
         /\ loading[l].at \in {"start", "handshake", "publish"} => table = NoProc
         /\ LoadAt(l, "record") /\ Runs(loading[l].proc) => Held(loading[l].proc)
    /\ \A p \in Procs : Runs(p) => InHand(p)

\* Nobody else knows of the process of a load that has not published it.
Unpublished ==
  \A l \in Loaders :
    loading[l].at \in {"start", "handshake", "publish"}
      => ~Held(loading[l].proc)

PluginsInv ==
  /\ PluginsTypeOK /\ StartedOnce /\ StopsInOrder /\ Unpublished /\ LoadsApart

LEMMA ProcNumbers == NoProc \notin Procs
BY PluginsAssumption DEF NoProc, Procs

\* One process changes.
LEMMA OneProcess ==
  ASSUME PluginsInv, NEW p \in Procs, NEW r \in ProcessType,
         process' = [process EXCEPT ![p] = r]
  PROVE  /\ process' \in [Procs -> ProcessType] /\ process'[p] = r
         /\ \A q \in Procs : q # p => process'[q] = process[q]
BY DEF PluginsInv, PluginsTypeOK

\* One call of LoadPlugin goes on, or returns.
LEMMA OneLoad ==
  ASSUME PluginsInv, NEW l \in Loaders, NEW r \in LoadType,
         loading' = [loading EXCEPT ![l] = r]
  PROVE  /\ loading' \in [Loaders -> LoadType] /\ loading'[l] = r
         /\ \A k \in Loaders : k # l => loading'[k] = loading[k]
BY DEF PluginsInv, PluginsTypeOK

LEMMA LoadGoesOn ==
  ASSUME PluginsInv, NEW l \in Loaders,
         NEW label \in {"handshake", "publish", "record"},
         loading' = [loading EXCEPT ![l].at = label]
  PROVE  /\ loading' \in [Loaders -> LoadType]
         /\ loading'[l].at = label /\ loading'[l].proc = loading[l].proc
         /\ \A k \in Loaders : k # l => loading'[k] = loading[k]
<1>1. loading[l] \in LoadType
  BY DEF PluginsInv, PluginsTypeOK
<1> DEFINE r == [loading[l] EXCEPT !.at = label]
<1>2. r \in LoadType /\ r.at = label /\ r.proc = loading[l].proc
  BY <1>1 DEF LoadType
<1>3. loading' = [loading EXCEPT ![l] = r]
  OBVIOUS
<1> HIDE DEF r
<1> QED
  BY <1>2, <1>3, OneLoad

LEMMA LoadReturns ==
  ASSUME PluginsInv, NEW l \in Loaders,
         loading' = [loading EXCEPT ![l] = NoLoad]
  PROVE  /\ loading' \in [Loaders -> LoadType]
         /\ loading'[l].at = "idle" /\ loading'[l].proc = NoProc
         /\ \A k \in Loaders : k # l => loading'[k] = loading[k]
<1>1. NoLoad \in LoadType /\ NoLoad.at = "idle" /\ NoLoad.proc = NoProc
  BY DEF NoLoad, LoadType
<1> QED
  BY <1>1, OneLoad

\* The same of StopPlugin.
LEMMA OneStop ==
  ASSUME PluginsInv, NEW s \in Stoppers, NEW r \in StopType,
         stopping' = [stopping EXCEPT ![s] = r]
  PROVE  /\ stopping' \in [Stoppers -> StopType] /\ stopping'[s] = r
         /\ \A t \in Stoppers : t # s => stopping'[t] = stopping[t]
BY DEF PluginsInv, PluginsTypeOK

LEMMA StopGoesOn ==
  ASSUME PluginsInv, NEW s \in Stoppers, NEW label \in {"wait", "update"},
         stopping' = [stopping EXCEPT ![s].at = label]
  PROVE  /\ stopping' \in [Stoppers -> StopType]
         /\ stopping'[s].at = label /\ stopping'[s].proc = stopping[s].proc
         /\ \A t \in Stoppers : t # s => stopping'[t] = stopping[t]
<1>1. stopping[s] \in StopType
  BY DEF PluginsInv, PluginsTypeOK
<1> DEFINE r == [stopping[s] EXCEPT !.at = label]
<1>2. r \in StopType /\ r.at = label /\ r.proc = stopping[s].proc
  BY <1>1 DEF StopType
<1>3. stopping' = [stopping EXCEPT ![s] = r]
  OBVIOUS
<1> HIDE DEF r
<1> QED
  BY <1>2, <1>3, OneStop

\* A call that is under way has a process.
LEMMA HasProcess ==
  ASSUME PluginsInv
  PROVE  /\ \A l \in Loaders : loading[l].at # "idle" => loading[l].proc \in Procs
         /\ \A s \in Stoppers : stopping[s].at # "idle" => stopping[s].proc \in Procs
         /\ \A p \in Procs : process[p] \in ProcessType
         /\ NoLoad \in LoadType /\ NoLoad \in StopType
BY DEF PluginsInv, PluginsTypeOK, LoadType, StopType, StartedOnce, StopsInOrder,
       LoadAt, StopAt, NoLoad

LEMMA LoadCheckKeeps ==
  ASSUME PluginsInv, NEW l \in Loaders, LoadCheck(l)
  PROVE  PluginsInv'
<1> USE DEF PluginsInv
<1>1. PICK p \in Procs :
        /\ Unused(p)
        /\ loading' = [loading EXCEPT ![l] = [at |-> "start", proc |-> p]]
  BY DEF LoadCheck
<1>2. /\ loading' \in [Loaders -> LoadType]
      /\ loading'[l].at = "start" /\ loading'[l].proc = p
      /\ \A k \in Loaders : k # l => loading'[k] = loading[k]
  <2>1. [at |-> "start", proc |-> p] \in LoadType
    BY DEF LoadType
  <2> QED
    BY <1>1, <2>1, OneLoad
<1>3. /\ UNCHANGED <<table, process, row, stopping>>
      /\ table = NoProc /\ loading[l].at = "idle" /\ loading[l].proc = NoProc
      /\ overlapped' \in BOOLEAN
      /\ ~overlapped' => ~overlapped /\ \A k \in Loaders : LoadAt(k, "idle")
  BY DEF LoadCheck, LoadAt, PluginsTypeOK, StartedOnce
<1>4. PluginsTypeOK'
  BY <1>2, <1>3 DEF PluginsTypeOK
<1>5. StartedOnce'
  BY <1>1, <1>2, <1>3, ProcNumbers
  DEF StartedOnce, LoadAt, Unused
<1>6. StopsInOrder'
  BY <1>3 DEF StopsInOrder, StopAt
<1>7. Unpublished'
  BY <1>1, <1>2, <1>3, ProcNumbers
  DEF Unpublished, Held, Unused, StartedOnce, StopsInOrder
<1>8. LoadsApart'
  <2> SUFFICES ASSUME ~overlapped' PROVE LoadsApart'
    BY DEF LoadsApart
  <2>1. ASSUME NEW q \in Procs, Runs(q)' PROVE InHand(q)'
    <3>1. InHand(q) /\ table # q
      BY <1>3, <2>1, ProcNumbers DEF LoadsApart, Runs
    <3>2. \A k \in Loaders : loading[k].proc # q
      BY <1>3, ProcNumbers DEF StartedOnce
    <3> QED
      BY <1>3, <3>1, <3>2 DEF InHand
  <2> QED
    BY <1>2, <1>3, <2>1 DEF LoadsApart, LoadAt
<1> QED
  BY <1>4, <1>5, <1>6, <1>8, <1>7

\* The process of a load gets a context, or is given up with the load.
LEMMA StartedKeeps ==
  ASSUME PluginsInv, NEW l \in Loaders, NEW p \in Procs, loading[l].proc = p,
         loading[l].at \in {"start", "handshake"},
         UNCHANGED <<table, row, stopping, overlapped>>,
         process' \in [Procs -> ProcessType], loading' \in [Loaders -> LoadType],
         \A q \in Procs : q # p => process'[q] = process[q],
         \A k \in Loaders : k # l => loading'[k] = loading[k],
         process'[p].ctx # "none",
         \/ loading'[l].at \in {"handshake", "publish"} /\ loading'[l].proc = p
         \/ /\ loading'[l].at = "idle" /\ loading'[l].proc = NoProc
            /\ ~process'[p].alive /\ process'[p].ctx = "done",
         table # p, \A s \in Stoppers : stopping[s].proc # p
  PROVE  PluginsInv'
<1> USE DEF PluginsInv
<1>1. \A k \in Loaders : k # l => loading[k].proc # p
  BY ProcNumbers DEF StartedOnce
<1>2. PluginsTypeOK'
  BY DEF PluginsTypeOK
<1>3. StartedOnce'
  <2>1. ASSUME NEW k \in Loaders
        PROVE  /\ LoadAt(k, "idle")' <=> loading'[k].proc = NoProc
               /\ LoadAt(k, "start")' => process'[loading'[k].proc].ctx = "none"
               /\ loading'[k].at \in {"handshake", "publish", "record"}
                    => process'[loading'[k].proc].ctx # "none"
    <3>1. CASE k = l
      BY <3>1, ProcNumbers DEF LoadAt
    <3>2. CASE k # l
      BY <1>1, <3>2, HasProcess DEF StartedOnce, LoadAt
    <3> QED
      BY <3>1, <3>2
  <2>2. table # NoProc => process'[table].ctx # "none"
    BY <1>1 DEF StartedOnce, PluginsTypeOK
  <2>3. \A q \in Procs : process'[q].ctx = "none" => ~process'[q].alive
    BY DEF StartedOnce
  <2>4. \A k, j \in Loaders :
          loading'[k].proc = loading'[j].proc => k = j \/ loading'[k].proc = NoProc
    BY <1>1 DEF StartedOnce
  <2> QED
    BY <2>1, <2>2, <2>3, <2>4 DEF StartedOnce
<1>4. StopsInOrder'
  BY <1>1, HasProcess DEF StopsInOrder, StopAt, PluginsTypeOK, StopType
<1>5. Unpublished'
  BY <1>1 DEF Unpublished, Held
<1>6. LoadsApart'
  <2> SUFFICES ASSUME ~overlapped PROVE LoadsApart'
    BY DEF LoadsApart
  <2>1. ASSUME NEW q \in Procs, Runs(q)' PROVE InHand(q)'
    <3>1. CASE q = p
      BY <2>1, <3>1 DEF Runs, InHand
    <3>2. CASE q # p
      <4>1. InHand(q)
        BY <2>1, <3>2 DEF LoadsApart, Runs
      <4> QED
        BY <3>2, <4>1 DEF InHand
    <3> QED
      BY <3>1, <3>2
  <2>2. table = NoProc /\ \A k \in Loaders : k # l => LoadAt(k, "idle")
    BY DEF LoadsApart, LoadAt
  <2> QED
    BY <2>1, <2>2 DEF LoadsApart, LoadAt
<1> QED
  BY <1>2, <1>3, <1>4, <1>6, <1>5

LEMMA LoadStartKeeps ==
  ASSUME PluginsInv, NEW l \in Loaders, LoadStart(l)
  PROVE  PluginsInv'
<1> USE DEF PluginsInv
<1> DEFINE p == loading[l].proc
<1>1. /\ loading[l].at = "start" /\ p \in Procs /\ process[p].ctx = "none"
      /\ process[p] \in ProcessType /\ ~process[p].alive
      /\ UNCHANGED <<table, row, stopping, overlapped>>
      /\ table # p /\ \A s \in Stoppers : stopping[s].proc # p
  BY HasProcess, ProcNumbers DEF LoadStart, LoadAt, StartedOnce, StopsInOrder
<1>2. CASE /\ process' = [process EXCEPT ![p].alive = TRUE, ![p].ctx = "live",
                                       ![p].status = "starting"]
           /\ loading' = [loading EXCEPT ![l].at = "handshake"]
  <2> DEFINE r == [process[p] EXCEPT !.alive = TRUE, !.ctx = "live",
                                     !.status = "starting"]
  <2>1. r \in ProcessType /\ r.ctx # "none"
    BY <1>1 DEF ProcessType
  <2>2. process' = [process EXCEPT ![p] = r]
    BY <1>1, <1>2 DEF PluginsTypeOK
  <2> HIDE DEF r
  <2>3. /\ process' \in [Procs -> ProcessType] /\ process'[p] = r
        /\ \A q \in Procs : q # p => process'[q] = process[q]
    BY <1>1, <2>1, <2>2, OneProcess
  <2>4. /\ loading' \in [Loaders -> LoadType]
        /\ loading'[l].at = "handshake" /\ loading'[l].proc = p
        /\ \A k \in Loaders : k # l => loading'[k] = loading[k]
    BY <1>2, LoadGoesOn
  <2> QED
    BY <1>1, <2>1, <2>3, <2>4, StartedKeeps
<1>3. CASE /\ process' = [process EXCEPT ![p].ctx = "done"]
           /\ loading' = [loading EXCEPT ![l] = NoLoad]
  <2> DEFINE r == [process[p] EXCEPT !.ctx = "done"]
  <2>1. r \in ProcessType /\ r.ctx = "done" /\ ~r.alive
    BY <1>1 DEF ProcessType
  <2>2. process' = [process EXCEPT ![p] = r]
    BY <1>1, <1>3 DEF PluginsTypeOK
  <2> HIDE DEF r
  <2>3. /\ process' \in [Procs -> ProcessType] /\ process'[p] = r
        /\ \A q \in Procs : q # p => process'[q] = process[q]
    BY <1>1, <2>1, <2>2, OneProcess
  <2>4. /\ loading' \in [Loaders -> LoadType]
        /\ loading'[l].at = "idle" /\ loading'[l].proc = NoProc
        /\ \A k \in Loaders : k # l => loading'[k] = loading[k]
    BY <1>3, LoadReturns
  <2> QED
    BY <1>1, <2>1, <2>3, <2>4, StartedKeeps
<1> QED
  BY <1>2, <1>3 DEF LoadStart

LEMMA LoadHandshakeKeeps ==
  ASSUME PluginsInv, NEW l \in Loaders, LoadHandshake(l)
  PROVE  PluginsInv'
<1> USE DEF PluginsInv
<1> DEFINE p == loading[l].proc
<1>1. /\ loading[l].at = "handshake" /\ p \in Procs /\ process[p].ctx # "none"
      /\ process[p] \in ProcessType
      /\ UNCHANGED <<table, row, stopping, overlapped>>
  BY HasProcess DEF LoadHandshake, LoadAt, StartedOnce
<1>2. table # p /\ \A s \in Stoppers : stopping[s].proc # p
  BY <1>1 DEF Unpublished, Held
<1>3. CASE /\ process' = [process EXCEPT ![p].status = "healthy"]
           /\ loading' = [loading EXCEPT ![l].at = "publish"]
  <2> DEFINE r == [process[p] EXCEPT !.status = "healthy"]
  <2>1. r \in ProcessType /\ r.ctx # "none"
    BY <1>1 DEF ProcessType
  <2>2. process' = [process EXCEPT ![p] = r]
    BY <1>1, <1>3 DEF PluginsTypeOK
  <2> HIDE DEF r
  <2>3. /\ process' \in [Procs -> ProcessType] /\ process'[p] = r
        /\ \A q \in Procs : q # p => process'[q] = process[q]
    BY <1>1, <2>1, <2>2, OneProcess
  <2>4. /\ loading' \in [Loaders -> LoadType]
        /\ loading'[l].at = "publish" /\ loading'[l].proc = p
        /\ \A k \in Loaders : k # l => loading'[k] = loading[k]
    BY <1>3, LoadGoesOn
  <2> QED
    BY <1>1, <1>2, <2>1, <2>3, <2>4, StartedKeeps
<1>4. CASE /\ process' = [process EXCEPT ![p].alive = FALSE, ![p].ctx = "done"]
           /\ loading' = [loading EXCEPT ![l] = NoLoad]
  <2> DEFINE r == [process[p] EXCEPT !.alive = FALSE, !.ctx = "done"]
  <2>1. r \in ProcessType /\ r.ctx = "done" /\ ~r.alive
    BY <1>1 DEF ProcessType
  <2>2. process' = [process EXCEPT ![p] = r]
    BY <1>1, <1>4 DEF PluginsTypeOK
  <2> HIDE DEF r
  <2>3. /\ process' \in [Procs -> ProcessType] /\ process'[p] = r
        /\ \A q \in Procs : q # p => process'[q] = process[q]
    BY <1>1, <2>1, <2>2, OneProcess
  <2>4. /\ loading' \in [Loaders -> LoadType]
        /\ loading'[l].at = "idle" /\ loading'[l].proc = NoProc
        /\ \A k \in Loaders : k # l => loading'[k] = loading[k]
    BY <1>4, LoadReturns
  <2> QED
    BY <1>1, <1>2, <2>1, <2>3, <2>4, StartedKeeps
<1> QED
  BY <1>3, <1>4 DEF LoadHandshake

LEMMA LoadPublishKeeps ==
  ASSUME PluginsInv, NEW l \in Loaders, LoadPublish(l)
  PROVE  PluginsInv'
<1> USE DEF PluginsInv
<1> DEFINE p == loading[l].proc
<1>1. /\ loading[l].at = "publish" /\ p \in Procs /\ table' = p
      /\ process[p].ctx # "none"
      /\ UNCHANGED <<process, row, stopping, overlapped>>
      /\ loading' = [loading EXCEPT ![l].at = "record"]
  BY HasProcess DEF LoadPublish, LoadAt, StartedOnce
<1>2. /\ loading' \in [Loaders -> LoadType]
      /\ loading'[l].at = "record" /\ loading'[l].proc = p
      /\ \A k \in Loaders : k # l => loading'[k] = loading[k]
  BY <1>1, LoadGoesOn
<1>3. \A k \in Loaders : k # l => loading[k].proc # p
  BY <1>1, ProcNumbers DEF StartedOnce
<1>4. \A k \in Loaders : loading'[k].proc = loading[k].proc
  BY <1>2
<1> HIDE DEF p
<1>5. PluginsTypeOK'
  BY <1>1, <1>2 DEF PluginsTypeOK
<1>6. StartedOnce'
  BY <1>1, <1>2, <1>4 DEF StartedOnce, LoadAt
<1>7. StopsInOrder'
  BY <1>1 DEF StopsInOrder, StopAt
<1>8. Unpublished'
  BY <1>1, <1>2, <1>3 DEF Unpublished, Held
<1>9. LoadsApart'
  <2> SUFFICES ASSUME ~overlapped PROVE LoadsApart'
    BY <1>1 DEF LoadsApart
  <2>1. table = NoProc /\ \A k \in Loaders : k # l => LoadAt(k, "idle")
    BY <1>1 DEF LoadsApart, LoadAt
  <2>2. ASSUME NEW q \in Procs, Runs(q)' PROVE InHand(q)'
    <3>1. InHand(q) /\ table # q
      BY <1>1, <2>1, <2>2, ProcNumbers DEF LoadsApart, Runs
    <3> QED
      BY <1>1, <1>4, <3>1 DEF InHand
  <2> QED
    BY <1>1, <1>2, <2>1, <2>2 DEF LoadsApart, LoadAt, Held
<1> QED
  BY <1>5, <1>6, <1>7, <1>8, <1>9

\* Steps that leave processes and contexts as they are.
Still(p) ==
  /\ process'[p].alive = process[p].alive
  /\ process'[p].ctx = process[p].ctx

LEMMA LoadRecordKeeps ==
  ASSUME PluginsInv, NEW l \in Loaders, LoadRecord(l)
  PROVE  PluginsInv'
<1> USE DEF PluginsInv
<1> DEFINE p == loading[l].proc
<1>1. /\ loading[l].at = "record" /\ p \in Procs /\ process[p] \in ProcessType
      /\ UNCHANGED <<table, stopping, overlapped>>
      /\ row' \in {"none", "active", "inactive"}
  BY HasProcess DEF LoadRecord, LoadAt, PluginsTypeOK
<1>2. process' \in [Procs -> ProcessType] /\ \A q \in Procs : Still(q)
  <2> DEFINE r == [process[p] EXCEPT !.loop = "wait"]
  <2>1. /\ r \in ProcessType /\ r.alive = process[p].alive
        /\ r.ctx = process[p].ctx
    BY <1>1 DEF ProcessType
  <2>2. process' = [process EXCEPT ![p] = r]
    BY <1>1 DEF LoadRecord, PluginsTypeOK
  <2> HIDE DEF r
  <2> QED
    BY <1>1, <2>1, <2>2, OneProcess DEF Still
<1>3. /\ loading' \in [Loaders -> LoadType]
      /\ loading'[l].at = "idle" /\ loading'[l].proc = NoProc
      /\ \A k \in Loaders : k # l => loading'[k] = loading[k]
  BY LoadReturns DEF LoadRecord
<1>4. \A k \in Loaders : loading[k].at # "idle" => loading[k].proc \in Procs
  BY HasProcess
<1> HIDE DEF p
<1>5. PluginsTypeOK'
  BY <1>1, <1>2, <1>3 DEF PluginsTypeOK
<1>6. StartedOnce'
  BY <1>1, <1>2, <1>3, <1>4 DEF StartedOnce, LoadAt, Still, PluginsTypeOK
<1>7. StopsInOrder'
  BY <1>1, <1>2, HasProcess DEF StopsInOrder, StopAt, Still
<1>8. Unpublished'
  BY <1>1, <1>3 DEF Unpublished, Held
<1>9. LoadsApart'
  <2> SUFFICES ASSUME ~overlapped PROVE LoadsApart'
    BY <1>1 DEF LoadsApart
  <2>1. \A k \in Loaders : k # l => LoadAt(k, "idle")
    BY <1>1 DEF LoadsApart, LoadAt
  <2>2. ASSUME NEW q \in Procs, Runs(q)' PROVE InHand(q)'
    <3>1. Runs(q) /\ InHand(q)
      BY <1>2, <2>2 DEF LoadsApart, Runs, Still
    <3>2. Held(q)
      BY <1>1, <2>1, <3>1, ProcNumbers
      DEF InHand, Held, LoadsApart, LoadAt, StartedOnce
    <3> QED
      BY <1>1, <3>2 DEF InHand, Held
  <2> QED
    BY <1>1, <1>3, <2>1, <2>2 DEF LoadsApart, LoadAt
<1> QED
  BY <1>5, <1>6, <1>7, <1>8, <1>9

\* A process ends, or its loop goes on: no context and no call is touched.
LEMMA ProcessStepKeeps ==
  ASSUME PluginsInv, NEW p \in Procs, NEW r \in ProcessType,
         process' = [process EXCEPT ![p] = r],
         r.ctx = process[p].ctx, r.alive => process[p].alive,
         UNCHANGED <<table, loading, stopping, overlapped>>,
         row' \in {"none", "active", "inactive"}
  PROVE  PluginsInv'
<1> USE DEF PluginsInv
<1>1. /\ process' \in [Procs -> ProcessType]
      /\ \A q \in Procs : /\ process'[q].ctx = process[q].ctx
                          /\ process'[q].alive => process[q].alive
  BY OneProcess
<1>2. PluginsTypeOK'
  BY <1>1 DEF PluginsTypeOK
<1>3. StartedOnce'
  BY <1>1, HasProcess DEF StartedOnce, LoadAt, PluginsTypeOK
<1>4. StopsInOrder'
  BY <1>1, HasProcess DEF StopsInOrder, StopAt
<1>5. Unpublished'
  BY DEF Unpublished, Held
<1>6. LoadsApart'
  <2>1. \A q \in Procs : Runs(q)' => Runs(q)
    BY <1>1 DEF Runs
  <2> QED
    BY <2>1, HasProcess DEF LoadsApart, LoadAt, Held, InHand
<1> QED
  BY <1>2, <1>3, <1>4, <1>5, <1>6

LEMMA HealthKeeps ==
  ASSUME PluginsInv, NEW p \in Procs, HealthStep(p) \/ ProcessEnds(p)
  PROVE  PluginsInv'
<1> USE DEF PluginsInv
<1>1. process[p] \in ProcessType /\ process \in [Procs -> ProcessType]
  BY DEF PluginsTypeOK
<1>2. CASE HealthTick(p)
  <2> DEFINE r == IF ~process[p].exited
                  THEN [process[p] EXCEPT !.errors = 0, !.status = "healthy",
                                          !.loop = "report"]
                  ELSE IF process[p].errors + 1 < 3
                  THEN [process[p] EXCEPT !.errors = @ + 1, !.loop = "report"]
                  ELSE [process[p] EXCEPT !.errors = @ + 1,
                                !.status = "crashed", !.loop = "backoff"]
  <2>1. r \in ProcessType /\ r.ctx = process[p].ctx /\ r.alive = process[p].alive
    <3>1. process[p].errors \in Nat /\ process[p].errors + 1 \in Nat
      BY <1>1 DEF ProcessType
    <3>2. [process[p] EXCEPT !.errors = 0, !.status = "healthy",
                             !.loop = "report"] \in ProcessType
      BY <1>1 DEF ProcessType
    <3>3. [process[p] EXCEPT !.errors = @ + 1, !.loop = "report"] \in ProcessType
      BY <1>1, <3>1 DEF ProcessType
    <3>4. [process[p] EXCEPT !.errors = @ + 1, !.status = "crashed",
                             !.loop = "backoff"] \in ProcessType
      BY <1>1, <3>1 DEF ProcessType
    <3>5. r \in ProcessType
      BY <3>2, <3>3, <3>4
    <3> QED
      BY <1>1, <3>5 DEF ProcessType
  <2>2. process' = [process EXCEPT ![p] = r]
    BY <1>1, <1>2 DEF HealthTick
  <2>3. UNCHANGED <<table, row, loading, stopping, overlapped>>
    BY <1>2 DEF HealthTick
  <2> HIDE DEF r
  <2> QED
    BY <2>1, <2>2, <2>3, ProcessStepKeeps DEF PluginsTypeOK
<1>3. CASE HealthReport(p) \/ HealthEnds(p)
  <2>1. PICK label \in {"wait", "ended"} :
          process' = [process EXCEPT ![p].loop = label]
    BY <1>3 DEF HealthReport, HealthEnds
  <2> DEFINE r == [process[p] EXCEPT !.loop = label]
  <2>2. r \in ProcessType /\ r.ctx = process[p].ctx /\ r.alive = process[p].alive
    BY <1>1 DEF ProcessType
  <2>3. process' = [process EXCEPT ![p] = r]
    BY <1>1, <2>1
  <2>4. /\ UNCHANGED <<table, loading, stopping, overlapped>>
        /\ row' \in {"none", "active", "inactive"}
    BY <1>3 DEF HealthReport, HealthEnds, PluginsTypeOK
  <2> HIDE DEF r
  <2> QED
    BY <2>2, <2>3, <2>4, ProcessStepKeeps
<1>4. CASE ProcessEnds(p)
  <2> DEFINE r == [process[p] EXCEPT !.alive = FALSE]
  <2>1. r \in ProcessType /\ r.ctx = process[p].ctx /\ ~r.alive
    BY <1>1 DEF ProcessType
  <2>2. process' = [process EXCEPT ![p] = r]
    BY <1>1, <1>4 DEF ProcessEnds
  <2>3. UNCHANGED <<table, row, loading, stopping, overlapped>>
    BY <1>4 DEF ProcessEnds
  <2> HIDE DEF r
  <2> QED
    BY <2>1, <2>2, <2>3, ProcessStepKeeps DEF PluginsTypeOK
<1> QED
  BY <1>2, <1>3, <1>4 DEF HealthStep

LEMMA StopClaimKeeps ==
  ASSUME PluginsInv, NEW s \in Stoppers, StopClaim(s)
  PROVE  PluginsInv'
<1> USE DEF PluginsInv
<1>1. /\ stopping[s].at = "idle" /\ stopping[s].proc = NoProc
      /\ table \in Procs /\ table # NoProc /\ table' = NoProc
      /\ process[table].ctx # "none"
      /\ stopping' = [stopping EXCEPT ![s] = [at |-> "cancel", proc |-> table]]
      /\ UNCHANGED <<process, row, loading, overlapped>>
  BY DEF StopClaim, StopAt, StopsInOrder, PluginsTypeOK, StartedOnce
<1>2. /\ stopping' \in [Stoppers -> StopType]
      /\ stopping'[s].at = "cancel" /\ stopping'[s].proc = table
      /\ \A t \in Stoppers : t # s => stopping'[t] = stopping[t]
  <2>1. [at |-> "cancel", proc |-> table] \in StopType
    BY <1>1 DEF StopType
  <2> QED
    BY <1>1, <2>1, OneStop
<1>3. PluginsTypeOK'
  BY <1>1, <1>2 DEF PluginsTypeOK
<1>4. StartedOnce'
  BY <1>1 DEF StartedOnce, LoadAt
<1>5. StopsInOrder'
  BY <1>1, <1>2 DEF StopsInOrder, StopAt
<1>6. \A p \in Procs : Held(p)' <=> Held(p)
  BY <1>1, <1>2, ProcNumbers DEF Held
<1>7. Unpublished'
  BY <1>1, <1>6, HasProcess DEF Unpublished
<1>8. LoadsApart'
  <2>1. \A p \in Procs : Runs(p)' = Runs(p) /\ (InHand(p) => InHand(p)')
    BY <1>1, <1>2, <1>6 DEF Runs, InHand, Held
  <2> QED
    BY <1>1, <1>6, <2>1, HasProcess DEF LoadsApart, LoadAt
<1> QED
  BY <1>3, <1>4, <1>5, <1>7, <1>8

\* The stop goes on with its process, whose context ends and which dies.
LEMMA StopGoesOnKeeps ==
  ASSUME PluginsInv, NEW s \in Stoppers, NEW p \in Procs, p = stopping[s].proc,
         NEW r \in ProcessType, process' = [process EXCEPT ![p] = r],
         NEW label \in {"wait", "update"},
         stopping' = [stopping EXCEPT ![s].at = label],
         r.ctx = "done", r.alive => process[p].alive,
         label = "update" => ~r.alive,
         UNCHANGED <<table, row, loading, overlapped>>
  PROVE  PluginsInv'
<1> USE DEF PluginsInv
<1>1. /\ process' \in [Procs -> ProcessType] /\ process'[p] = r
      /\ \A q \in Procs : /\ q # p => process'[q] = process[q]
                          /\ process'[q].alive => process[q].alive
                          /\ process'[q].ctx # "none" \/ process'[q] = process[q]
  BY OneProcess
<1>2. /\ stopping' \in [Stoppers -> StopType]
      /\ stopping'[s].at = label
      /\ \A t \in Stoppers : /\ t # s => stopping'[t] = stopping[t]
                             /\ stopping'[t].proc = stopping[t].proc
  BY StopGoesOn
<1>3. \A l \in Loaders : loading[l].at = "start" => loading[l].proc # p
  BY DEF Unpublished, Held
<1>4. PluginsTypeOK'
  BY <1>1, <1>2 DEF PluginsTypeOK
<1>5. StartedOnce'
  <2>1. \A l \in Loaders : loading[l].at # "idle" => loading[l].proc \in Procs
    BY HasProcess
  <2> QED
    BY <1>1, <1>3, <2>1 DEF StartedOnce, LoadAt, PluginsTypeOK
<1>6. StopsInOrder'
  <2>1. ASSUME NEW t \in Stoppers
        PROVE  /\ StopAt(t, "idle")' <=> stopping'[t].proc = NoProc
               /\ stopping'[t].proc # NoProc
                    => process'[stopping'[t].proc].ctx # "none"
               /\ stopping'[t].at \in {"wait", "update"}
                    => process'[stopping'[t].proc].ctx = "done"
               /\ StopAt(t, "update")' => ~process'[stopping'[t].proc].alive
    <3>1. CASE t = s
      BY <1>1, <1>2, <3>1, ProcNumbers DEF StopAt
    <3>2. CASE t # s
      <4>1. /\ stopping'[t] = stopping[t]
            /\ stopping[t].at # "idle" => stopping[t].proc \in Procs
        BY <1>2, <3>2, HasProcess
      <4>2. /\ stopping[t].at = "idle" <=> stopping[t].proc = NoProc
            /\ stopping[t].proc # NoProc => process[stopping[t].proc].ctx # "none"
            /\ stopping[t].at \in {"wait", "update"}
                 => process[stopping[t].proc].ctx = "done"
            /\ stopping[t].at = "update" => ~process[stopping[t].proc].alive
        BY DEF StopsInOrder, StopAt
      <4>3. \A q \in Procs : /\ process[q].ctx # "none" => process'[q].ctx # "none"
                             /\ process[q].ctx = "done" => process'[q].ctx = "done"
                             /\ ~process[q].alive => ~process'[q].alive
        BY <1>1
      <4> QED
        BY <4>1, <4>2, <4>3 DEF StopAt
    <3> QED
      BY <3>1, <3>2
  <2> QED
    BY <2>1 DEF StopsInOrder
<1>7. \A q \in Procs : /\ Held(q) => Held(q)'
                       /\ InHand(q) => InHand(q)'
                       /\ Runs(q)' => Runs(q)
  BY <1>1, <1>2 DEF Held, InHand, Runs
<1>8. Unpublished'
  BY <1>2 DEF Unpublished, Held
<1>9. LoadsApart'
  BY <1>7, HasProcess DEF LoadsApart, LoadAt
<1> QED
  BY <1>4, <1>5, <1>6, <1>8, <1>9

LEMMA StopStepKeeps ==
  ASSUME PluginsInv, NEW s \in Stoppers, StopCancel(s) \/ StopWait(s)
  PROVE  PluginsInv'
<1> USE DEF PluginsInv
<1> DEFINE p == stopping[s].proc
<1>1. /\ p \in Procs /\ process[p] \in ProcessType
      /\ process \in [Procs -> ProcessType]
      /\ UNCHANGED <<table, row, loading, overlapped>>
  BY HasProcess DEF StopCancel, StopWait, StopAt, PluginsTypeOK
<1>2. CASE StopCancel(s)
  <2> DEFINE r == [process[p] EXCEPT !.ctx = "done"]
  <2>1. r \in ProcessType /\ r.ctx = "done" /\ r.alive = process[p].alive
    BY <1>1 DEF ProcessType
  <2>2. /\ process' = [process EXCEPT ![p] = r]
        /\ stopping' = [stopping EXCEPT ![s].at = "wait"]
    BY <1>1, <1>2 DEF StopCancel
  <2> HIDE DEF r
  <2> QED
    BY <1>1, <2>1, <2>2, StopGoesOnKeeps
<1>3. CASE StopWait(s)
  <2> DEFINE r == [process[p] EXCEPT !.alive = FALSE, !.exited = TRUE]
  <2>1. process[p].ctx = "done"
    BY <1>3 DEF StopWait, StopAt, StopsInOrder
  <2>2. r \in ProcessType /\ r.ctx = "done" /\ ~r.alive
    BY <1>1, <2>1 DEF ProcessType
  <2>3. /\ process' = [process EXCEPT ![p] = r]
        /\ stopping' = [stopping EXCEPT ![s].at = "update"]
    BY <1>1, <1>3 DEF StopWait
  <2> HIDE DEF r
  <2> QED
    BY <1>1, <2>2, <2>3, StopGoesOnKeeps
<1> QED
  BY <1>2, <1>3

LEMMA StopUpdateKeeps ==
  ASSUME PluginsInv, NEW s \in Stoppers, StopUpdate(s)
  PROVE  PluginsInv'
<1> USE DEF PluginsInv
<1> DEFINE p == stopping[s].proc
<1>1. /\ stopping[s].at = "update" /\ p \in Procs /\ process[p] \in ProcessType
      /\ process[p].ctx = "done" /\ ~process[p].alive
      /\ UNCHANGED <<table, loading, overlapped>>
      /\ row' \in {"none", "active", "inactive"}
  BY HasProcess DEF StopUpdate, StopAt, StopsInOrder, PluginsTypeOK
<1>2. process' \in [Procs -> ProcessType] /\ \A q \in Procs : Still(q)
  <2> DEFINE r == [process[p] EXCEPT !.status = "stopped"]
  <2>1. /\ r \in ProcessType /\ r.alive = process[p].alive
        /\ r.ctx = process[p].ctx
    BY <1>1 DEF ProcessType
  <2>2. process' = [process EXCEPT ![p] = r]
    BY <1>1 DEF StopUpdate, PluginsTypeOK
  <2> HIDE DEF r
  <2> QED
    BY <1>1, <2>1, <2>2, OneProcess DEF Still
<1>3. /\ stopping' \in [Stoppers -> StopType]
      /\ stopping'[s].at = "idle" /\ stopping'[s].proc = NoProc
      /\ \A t \in Stoppers : t # s => stopping'[t] = stopping[t]
  <2>1. NoLoad \in StopType /\ NoLoad.at = "idle" /\ NoLoad.proc = NoProc
    BY DEF NoLoad, StopType
  <2> QED
    BY <2>1, OneStop DEF StopUpdate
<1>4. PluginsTypeOK'
  BY <1>1, <1>2, <1>3 DEF PluginsTypeOK
<1>5. StartedOnce'
  BY <1>1, <1>2, HasProcess DEF StartedOnce, LoadAt, Still, PluginsTypeOK
<1>6. StopsInOrder'
  BY <1>2, <1>3, HasProcess DEF StopsInOrder, StopAt, Still
<1>7. \A t \in Stoppers : /\ stopping'[t].proc \in {stopping[t].proc, NoProc}
                          /\ stopping[t].proc # p => stopping'[t] = stopping[t]
  BY <1>3
<1>8. \A q \in Procs : /\ Held(q)' => Held(q)
                       /\ q # p => (Held(q) => Held(q)') /\ (InHand(q) => InHand(q)')
                       /\ Runs(q)' => Runs(q)
  <2> SUFFICES ASSUME NEW q \in Procs
               PROVE  /\ Held(q)' => Held(q)
                      /\ q # p => (Held(q) => Held(q)') /\ (InHand(q) => InHand(q)')
                      /\ Runs(q)' => Runs(q)
    OBVIOUS
  <2>1. UNCHANGED <<table, loading>> /\ q # NoProc
    BY <1>1, ProcNumbers
  <2> HIDE DEF p
  <2>2. Held(q)' => Held(q)
    BY <1>7, <2>1 DEF Held
  <2>3. q # p => (Held(q) => Held(q)') /\ (InHand(q) => InHand(q)')
    BY <1>7, <2>1 DEF Held, InHand
  <2>4. Runs(q)' => Runs(q)
    BY <1>2 DEF Runs, Still
  <2> QED
    BY <2>2, <2>3, <2>4
<1>9. ~Runs(p)
  BY <1>1 DEF Runs
<1> HIDE DEF p
<1>10. Unpublished'
  BY <1>1, <1>8, HasProcess DEF Unpublished
<1>11. LoadsApart'
  BY <1>1, <1>8, <1>9, HasProcess DEF LoadsApart, LoadAt
<1> QED
  BY <1>4, <1>5, <1>6, <1>10, <1>11

-----------------------------------------------------------------------------

LEMMA PluginsInvInit == PluginsInit => PluginsInv
<1> SUFFICES ASSUME PluginsInit PROVE PluginsInv
  OBVIOUS
<1>1. /\ process \in [Procs -> ProcessType]
      /\ \A p \in Procs : process[p].ctx = "none" /\ process[p].alive = FALSE
  <2>1. NoProcess \in ProcessType
    BY DEF NoProcess, ProcessType
  <2> QED
    BY <2>1 DEF PluginsInit, NoProcess
<1>2. /\ loading \in [Loaders -> LoadType] /\ stopping \in [Stoppers -> StopType]
      /\ \A l \in Loaders : loading[l].at = "idle" /\ loading[l].proc = NoProc
      /\ \A s \in Stoppers : stopping[s].at = "idle" /\ stopping[s].proc = NoProc
  <2>1. /\ NoLoad \in LoadType /\ NoLoad \in StopType
        /\ NoLoad.at = "idle" /\ NoLoad.proc = NoProc
    BY DEF NoLoad, LoadType, StopType
  <2> QED
    BY <2>1 DEF PluginsInit
<1>3. table = NoProc /\ row = "none" /\ overlapped = FALSE
  BY DEF PluginsInit
<1>4. PluginsTypeOK
  BY <1>1, <1>2, <1>3 DEF PluginsTypeOK
<1>5. StartedOnce /\ StopsInOrder /\ Unpublished
  BY <1>1, <1>2, <1>3 DEF StartedOnce, StopsInOrder, Unpublished, LoadAt, StopAt
<1>6. LoadsApart
  BY <1>1, <1>2 DEF LoadsApart, LoadAt, Runs
<1> QED
  BY <1>4, <1>5, <1>6 DEF PluginsInv

LEMMA PluginsInvNext == PluginsInv /\ [PluginsNext]_pluginVars => PluginsInv'
<1> SUFFICES ASSUME PluginsInv, [PluginsNext]_pluginVars PROVE PluginsInv'
  OBVIOUS
<1>1. ASSUME NEW l \in Loaders, LoadStep(l) PROVE PluginsInv'
  BY <1>1, LoadCheckKeeps, LoadStartKeeps, LoadHandshakeKeeps, LoadPublishKeeps,
     LoadRecordKeeps DEF LoadStep
<1>2. ASSUME NEW p \in Procs, HealthStep(p) \/ ProcessEnds(p) PROVE PluginsInv'
  BY <1>2, HealthKeeps
<1>3. ASSUME NEW s \in Stoppers, StopStep(s) PROVE PluginsInv'
  BY <1>3, StopClaimKeeps, StopStepKeeps, StopUpdateKeeps DEF StopStep
<1>4. CASE UNCHANGED pluginVars
  BY <1>4
  DEF pluginVars, PluginsInv, PluginsTypeOK, StartedOnce, StopsInOrder,
      Unpublished, LoadsApart, Held, Runs, InHand, LoadAt, StopAt
<1> QED
  BY <1>1, <1>2, <1>3, <1>4 DEF PluginsNext

LEMMA PluginsAlways == PluginsSpec => []PluginsInv
BY PluginsInvInit, PluginsInvNext, PTL DEF PluginsSpec

\* Without loads that overlap LoadPlugin and StopPlugin lose no process
\* (manager.go:60-65, 107-109), for any number of calls and of processes.
THEOREM NoOrphanWithoutOverlap == PluginsSpec => []OnlyOverlapOrphans
<1>1. PluginsInv => OnlyOverlapOrphans
  BY DEF PluginsInv, LoadsApart, Runs, OnlyOverlapOrphans
<1> QED
  BY <1>1, PluginsAlways, PTL

\* The only writer of active over inactive is the health loop, and only while
\* its context is alive.
LEMMA InactiveStep ==
  PluginsInv /\ [PluginsNext]_pluginVars
    => [row = "inactive" /\ row' = "active" /\ ~overlapped
          => \E p \in Procs : InHand(p) /\ LoopAt(p, "report")]_pluginVars
<1> SUFFICES ASSUME PluginsInv, PluginsNext, row = "inactive", row' = "active",
                    ~overlapped
             PROVE  \E p \in Procs : InHand(p) /\ LoopAt(p, "report")
  OBVIOUS
<1>1. \A l \in Loaders : ~LoadStep(l)
  BY DEF LoadStep, LoadCheck, LoadStart, LoadHandshake, LoadPublish, LoadRecord
<1>2. \A s \in Stoppers : ~StopStep(s)
  BY DEF StopStep, StopClaim, StopCancel, StopWait, StopUpdate
<1>3. PICK p \in Procs : HealthStep(p) \/ ProcessEnds(p)
  BY <1>1, <1>2 DEF PluginsNext
<1>4. LoopAt(p, "report") /\ process[p].ctx = "live"
  BY <1>3 DEF HealthStep, HealthTick, HealthReport, HealthEnds, ProcessEnds
<1>5. InHand(p)
  BY <1>4 DEF PluginsInv, LoadsApart, Runs
<1> QED
  BY <1>4, <1>5

\* A stopped plugin is recorded as active again only by the health loop of a
\* process that is loaded or being stopped (manager.go:213, 219, 401).
THEOREM StoppedIsRecorded == PluginsSpec => StoppedStaysInactive
BY PluginsAlways, InactiveStep, PTL DEF PluginsSpec, StoppedStaysInactive

-----------------------------------------------------------------------------
(* PluginCalls. *)

CallsTypeOK ==
  /\ stdin \in Seq(Calls) /\ stdout \in Seq(Calls)
  /\ request \in [Calls -> [at : {"new", "waiting", "answered", "timeout"},
                            answer : Calls \cup {NoAnswer}]]
  /\ readers \in SUBSET Calls /\ shared \in BOOLEAN

\* Each call has one line, in one of the two pipes.
LinesAreDistinct ==
  /\ \A i, k \in DOMAIN stdin : i # k => stdin[i] # stdin[k]
  /\ \A i, k \in DOMAIN stdout : i # k => stdout[i] # stdout[k]
  /\ \A i \in DOMAIN stdin, k \in DOMAIN stdout : stdin[i] # stdout[k]

\* A line is in the pipes from the time it is written to the time it is read.
LinesAreWritten ==
  /\ \A i \in DOMAIN stdin : request[stdin[i]].at # "new"
  /\ \A i \in DOMAIN stdout : request[stdout[i]].at # "new"
  /\ \A c \in Calls : Answered(c) => /\ request[c].answer \in Calls
                                     /\ request[request[c].answer].at # "new"

AnswersAreTaken ==
  \A c \in Calls : Answered(c) =>
    /\ \A i \in DOMAIN stdin : stdin[i] # request[c].answer
    /\ \A i \in DOMAIN stdout : stdout[i] # request[c].answer

\* Without sharing there is at most one reader, and its line alone.
OneAtATime ==
  ~shared =>
    \/ readers = {} /\ stdin = <<>> /\ stdout = <<>>
    \/ \E c \in Calls :
         /\ readers = {c}
         /\ \/ stdin = <<c>> /\ stdout = <<>>
            \/ stdin = <<>> /\ stdout = <<c>>

CallsInv ==
  /\ CallsTypeOK /\ LinesAreDistinct /\ LinesAreWritten /\ AnswersAreTaken
  /\ OneAtATime /\ AnswersAreNotMixed

-----------------------------------------------------------------------------

\* At the start no call was made.
LEMMA CallsInvInit == CallsInit => CallsInv
<1> SUFFICES ASSUME CallsInit PROVE CallsInv
  OBVIOUS
<1>1. /\ stdin = <<>> /\ stdout = <<>> /\ readers = {} /\ shared = FALSE
      /\ \A c \in Calls : ~Answered(c)
  BY DEF CallsInit, Answered
<1>2. DOMAIN stdin = {} /\ DOMAIN stdout = {}
  BY <1>1
<1>3. CallsTypeOK
  <2>1. request \in [Calls -> [at : {"new", "waiting", "answered", "timeout"},
                              answer : Calls \cup {NoAnswer}]]
    BY DEF CallsInit
  <2>2. stdin \in Seq(Calls) /\ stdout \in Seq(Calls)
    BY <1>1
  <2>3. readers \in SUBSET Calls /\ shared \in BOOLEAN
    BY <1>1
  <2> QED
    BY <2>1, <2>2, <2>3 DEF CallsTypeOK
<1>4. LinesAreDistinct /\ LinesAreWritten /\ AnswersAreTaken
  BY <1>1, <1>2 DEF LinesAreDistinct, LinesAreWritten, AnswersAreTaken
<1>5. OneAtATime /\ AnswersAreNotMixed
  BY <1>1 DEF OneAtATime, AnswersAreNotMixed
<1> QED
  BY <1>3, <1>4, <1>5 DEF CallsInv

\* What a queue has after a line was added at its end.
LEMMA AppendedAt ==
  ASSUME NEW q \in Seq(Calls), NEW c \in Calls
  PROVE  /\ Append(q, c) \in Seq(Calls)
         /\ \A i \in DOMAIN Append(q, c) :
              \/ i \in DOMAIN q /\ Append(q, c)[i] = q[i]
              \/ i = Len(q) + 1 /\ Append(q, c)[i] = c
OBVIOUS

\* What a queue has after its first k lines were taken: lines it had, in order.
LEMMA AfterTaking ==
  ASSUME NEW q \in Seq(Calls), NEW k \in 1..Len(q)
  PROVE  /\ SubSeq(q, k + 1, Len(q)) \in Seq(Calls)
         /\ \A i \in DOMAIN SubSeq(q, k + 1, Len(q)) :
              /\ i + k \in DOMAIN q /\ i + k # 1
              /\ SubSeq(q, k + 1, Len(q))[i] = q[i + k]
OBVIOUS

LEMMA AfterTail ==
  ASSUME NEW q \in Seq(Calls), q # <<>>
  PROVE  /\ Tail(q) \in Seq(Calls) /\ Head(q) = q[1] /\ 1 \in DOMAIN q
         /\ \A i \in DOMAIN Tail(q) : i + 1 \in DOMAIN q /\ Tail(q)[i] = q[i + 1]
OBVIOUS

-----------------------------------------------------------------------------

\* Calls, timeouts, late goroutines and the plugin keep the invariant
\* (manager.go:430-500).
LEMMA CallsInvNext == CallsInv /\ [CallsNext]_callVars => CallsInv'
<1> SUFFICES ASSUME CallsInv, [CallsNext]_callVars PROVE CallsInv'
  OBVIOUS
<1> USE DEF CallsInv, CallsTypeOK, Answered
<1>1. ASSUME NEW c \in Calls, CallWrite(c) PROVE CallsInv'
  <2>1. /\ stdin' = Append(stdin, c) /\ stdout' = stdout
        /\ request' = [request EXCEPT ![c].at = "waiting"]
        /\ request[c].at = "new"
    BY <1>1 DEF CallWrite
  <2>2. \A i \in DOMAIN stdin' :
          \/ i \in DOMAIN stdin /\ stdin'[i] = stdin[i]
          \/ i = Len(stdin) + 1 /\ stdin'[i] = c
    BY <2>1, AppendedAt
  <2>3. CallsTypeOK'
    <3>1. stdin' \in Seq(Calls) /\ stdout' \in Seq(Calls)
      BY <2>1, AppendedAt
    <3>2. request' \in [Calls -> [at : {"new", "waiting", "answered", "timeout"},
                                 answer : Calls \cup {NoAnswer}]]
      BY <2>1
    <3>3. readers' \in SUBSET Calls
      BY <1>1 DEF CallWrite
    <3>4. shared' \in BOOLEAN
      <4>1. shared' = (shared \/ readers # {})
        BY <1>1 DEF CallWrite
      <4> QED
        BY <4>1, Zenon
    <3> QED
      BY <3>1, <3>2, <3>3, <3>4
  <2>4. /\ \A i \in DOMAIN stdin : stdin[i] # c
        /\ \A i \in DOMAIN stdout : stdout[i] # c
        /\ \A d \in Calls : Answered(d) => d # c /\ request[d].answer # c
    BY <2>1 DEF LinesAreWritten
  <2>5. LinesAreDistinct'
    BY <2>1, <2>2, <2>4 DEF LinesAreDistinct
  <2>6. \A d \in Calls : d # c => request'[d] = request[d]
    BY <2>1
  <2>7. request'[c].at = "waiting"
    BY <2>1
  <2>8. LinesAreWritten'
    BY <2>1, <2>2, <2>4, <2>6, <2>7 DEF LinesAreWritten
  <2>9. AnswersAreTaken'
    BY <2>1, <2>2, <2>4, <2>6, <2>7 DEF AnswersAreTaken
  <2>10. OneAtATime'
    <3> SUFFICES ASSUME ~shared' PROVE readers' = {c} /\ stdin' = <<c>> /\ stdout' = <<>>
      BY DEF OneAtATime
    <3>1. ~shared /\ readers = {}
      BY <1>1 DEF CallWrite
    <3>2. stdin = <<>> /\ stdout = <<>>
      BY <3>1 DEF OneAtATime
    <3> QED
      BY <1>1, <2>1, <3>1, <3>2 DEF CallWrite
  <2>11. AnswersAreNotMixed'
    <3>1. shared' = (shared \/ readers # {})
      BY <1>1 DEF CallWrite
    <3> QED
      BY <2>6, <2>7, <3>1 DEF AnswersAreNotMixed
  <2> QED
    BY <2>3, <2>5, <2>8, <2>9, <2>10, <2>11
<1>2. CASE PluginAnswers
  <2>1. /\ stdin # <<>> /\ stdout' = Append(stdout, Head(stdin)) /\ stdin' = Tail(stdin)
        /\ UNCHANGED <<request, readers, shared>>
    BY <1>2 DEF PluginAnswers
  <2>2. /\ Head(stdin) = stdin[1] /\ 1 \in DOMAIN stdin /\ stdin[1] \in Calls
        /\ \A i \in DOMAIN stdin' :
             i + 1 \in DOMAIN stdin /\ i + 1 # 1 /\ stdin'[i] = stdin[i + 1]
    BY <2>1, AfterTail
  <2>3. \A i \in DOMAIN stdout' :
          \/ i \in DOMAIN stdout /\ stdout'[i] = stdout[i]
          \/ i = Len(stdout) + 1 /\ stdout'[i] = stdin[1]
    BY <2>1, <2>2, AppendedAt
  <2>4. CallsTypeOK'
    BY <2>1, <2>2, AppendedAt, AfterTail
  <2>5. LinesAreDistinct'
    <3>1. \A i, k \in DOMAIN stdin' : i # k => i + 1 # k + 1
      BY <2>4
    <3> QED
      BY <2>2, <2>3, <3>1 DEF LinesAreDistinct
  <2>6. LinesAreWritten' /\ AnswersAreTaken'
    BY <2>1, <2>2, <2>3 DEF LinesAreWritten, AnswersAreTaken
  <2>7. OneAtATime'
    <3> SUFFICES ASSUME ~shared PROVE OneAtATime'
      BY <2>1 DEF OneAtATime
    <3>1. PICK c \in Calls : readers = {c} /\ stdin = <<c>> /\ stdout = <<>>
      BY <2>1 DEF OneAtATime
    <3>2. stdin' = <<>> /\ stdout' = <<c>> /\ readers' = {c}
      BY <2>1, <3>1
    <3> QED
      BY <3>2 DEF OneAtATime
  <2>8. AnswersAreNotMixed'
    BY <2>1 DEF AnswersAreNotMixed
  <2> QED
    BY <2>4, <2>5, <2>6, <2>7, <2>8
<1>3. ASSUME NEW c \in Calls, CallRead(c) PROVE CallsInv'
  <2>1. PICK k \in 1..Len(stdout) : stdout' = SubSeq(stdout, k + 1, Len(stdout))
    BY <1>3 DEF CallRead
  <2>2. /\ stdout # <<>> /\ c \in readers /\ readers' = readers \ {c}
        /\ UNCHANGED <<stdin, shared>>
        /\ request' = IF request[c].at = "waiting"
                      THEN [request EXCEPT ![c] =
                              [at |-> "answered", answer |-> Head(stdout)]]
                      ELSE request
    BY <1>3 DEF CallRead
  <2>3. Head(stdout) = stdout[1] /\ 1 \in DOMAIN stdout /\ stdout[1] \in Calls
    BY <2>2, AfterTail
  <2>4. /\ stdout' \in Seq(Calls)
        /\ \A i \in DOMAIN stdout' :
             i + k \in DOMAIN stdout /\ i + k # 1 /\ stdout'[i] = stdout[i + k]
    BY <2>1, AfterTaking
  <2>5. CallsTypeOK'
    BY <2>2, <2>3, <2>4
  <2>6. LinesAreDistinct'
    <3>1. \A i, l \in DOMAIN stdout' : i # l => i + k # l + k
      BY <2>1, <2>4
    <3> QED
      BY <2>2, <2>4, <3>1 DEF LinesAreDistinct
  <2>7. \A d \in Calls :
          /\ request'[d].at = "new" <=> request[d].at = "new"
          /\ Answered(d)' => \/ Answered(d) /\ request'[d] = request[d]
                             \/ d = c /\ ~Answered(c) /\ request'[d].answer = stdout[1]
    BY <2>2, <2>3
  <2>8. LinesAreWritten'
    BY <2>2, <2>3, <2>4, <2>7 DEF LinesAreWritten
  <2>9. /\ \A i \in DOMAIN stdout' : stdout'[i] # stdout[1]
        /\ \A i \in DOMAIN stdin : stdin[i] # stdout[1]
    BY <2>3, <2>4 DEF LinesAreDistinct
  <2>10. AnswersAreTaken'
    BY <2>2, <2>4, <2>7, <2>9 DEF AnswersAreTaken
  <2>11. \A d \in Calls : Answered(d) => request[d].answer # stdout[1]
    BY <2>3 DEF AnswersAreTaken
  <2>12. ~shared => stdin' = <<>> /\ stdout' = <<>> /\ readers' = {} /\ stdout[1] = c
    <3> SUFFICES ASSUME ~shared
                 PROVE  stdin' = <<>> /\ stdout' = <<>> /\ readers' = {} /\ stdout[1] = c
      OBVIOUS
    <3>1. readers = {c} /\ stdin = <<>> /\ stdout = <<c>>
      BY <2>2 DEF OneAtATime
    <3>2. k = 1
      BY <2>1, <3>1
    <3> QED
      BY <2>1, <2>2, <3>1, <3>2
  <2>13. OneAtATime'
    BY <2>2, <2>12 DEF OneAtATime
  <2>14. AnswersAreNotMixed'
    BY <2>2, <2>7, <2>11, <2>12 DEF AnswersAreNotMixed
  <2> QED
    BY <2>5, <2>6, <2>8, <2>10, <2>13, <2>14
<1>4. ASSUME NEW c \in Calls, CallTimeout(c) PROVE CallsInv'
  <2>1. /\ request' = [request EXCEPT ![c].at = "timeout"] /\ request[c].at = "waiting"
        /\ UNCHANGED <<stdin, stdout, readers, shared>>
    BY <1>4 DEF CallTimeout
  <2>2. \A d \in Calls :
          /\ request'[d].at = "new" <=> request[d].at = "new"
          /\ Answered(d)' => Answered(d) /\ request'[d] = request[d]
    BY <2>1
  <2>3. CallsTypeOK'
    BY <2>1
  <2>4. LinesAreDistinct' /\ LinesAreWritten' /\ AnswersAreTaken'
    BY <2>1, <2>2 DEF LinesAreDistinct, LinesAreWritten, AnswersAreTaken
  <2>5. OneAtATime' /\ AnswersAreNotMixed'
    BY <2>1, <2>2 DEF OneAtATime, AnswersAreNotMixed
  <2> QED
    BY <2>3, <2>4, <2>5
<1>5. CASE UNCHANGED callVars
  BY <1>5 DEF callVars, LinesAreDistinct, LinesAreWritten, AnswersAreTaken,
              OneAtATime, AnswersAreNotMixed
<1> QED
  BY <1>1, <1>2, <1>3, <1>4, <1>5 DEF CallsNext

\* No answer is taken by two calls, and one that had the plugin to itself took
\* its own, for any number of calls and timeouts (manager.go:430-500).
THEOREM AnswersStayApart == CallsSpec => []AnswersAreNotMixed
<1>1. CallsInv => AnswersAreNotMixed
  BY DEF CallsInv
<1> QED
  BY <1>1, CallsInvInit, CallsInvNext, PTL DEF CallsSpec

=============================================================================
