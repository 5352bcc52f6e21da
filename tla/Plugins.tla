-------------------------------- MODULE Plugins --------------------------------
(***************************************************************************)
(* The plugin manager of internal/plugins: subprocesses that are loaded,   *)
(* looked at by a health loop and stopped.  One plugin id; the processes   *)
(* started for it are numbered.  The table of the manager, the health      *)
(* loops and the row of the store are written from different goroutines.   *)
(* restartPlugin is modelled up to its backoff: exited is only ever TRUE   *)
(* after a stop has cancelled the context, on which the backoff returns.   *)
(***************************************************************************)
EXTENDS Integers

CONSTANTS Loaders,  \* calls of LoadPlugin, one at a time each
          Stoppers, \* calls of StopPlugin, one at a time each
          MaxProcs  \* bound: processes ever started

NoProc == 0
Procs == 1..MaxProcs

ASSUME PluginsAssumption == MaxProcs \in Nat \ {0}

VARIABLES
  table,     \* PluginManager.plugins of the id
  process,   \* the processes, and the managedPlugin of each
  row,       \* the status in the plugins table, "none" if there is no row
  loading,   \* the calls of LoadPlugin: where they are, and their process
  stopping,  \* the calls of StopPlugin
  overlapped \* history: two loads were past the check at the same time

pluginVars == <<table, process, row, loading, stopping, overlapped>>

NoProcess == [alive |-> FALSE, exited |-> FALSE, ctx |-> "none",
              status |-> "none", errors |-> 0, loop |-> "off"]
NoLoad == [at |-> "idle", proc |-> NoProc]

PluginsInit ==
  /\ table = NoProc /\ row = "none" /\ overlapped = FALSE
  /\ process = [p \in Procs |-> NoProcess]
  /\ loading = [l \in Loaders |-> NoLoad]
  /\ stopping = [s \in Stoppers |-> NoLoad]

-----------------------------------------------------------------------------
(* LoadPlugin. *)

LoadAt(l, label) == loading[l].at = label
Unused(p) == process[p].ctx = "none" /\ \A l \in Loaders : loading[l].proc # p

\* The table is looked at and let go of.
LoadCheck(l) ==
  /\ LoadAt(l, "idle") /\ table = NoProc
  /\ \E p \in Procs :
       /\ Unused(p) /\ \A q \in 1..(p - 1) : ~Unused(q)
       /\ loading' = [loading EXCEPT ![l] = [at |-> "start", proc |-> p]]
  /\ overlapped' = (overlapped \/ \E k \in Loaders : ~LoadAt(k, "idle"))
  /\ UNCHANGED <<table, process, row, stopping>>

LoadStart(l) ==
  LET p == loading[l].proc IN
  /\ LoadAt(l, "start")
  /\ \/ /\ process' = [process EXCEPT ![p].alive = TRUE, ![p].ctx = "live",
                                      ![p].status = "starting"]
        /\ loading' = [loading EXCEPT ![l].at = "handshake"]
     \/ /\ process' = [process EXCEPT ![p].ctx = "done"]
        /\ loading' = [loading EXCEPT ![l] = NoLoad]
  /\ UNCHANGED <<table, row, stopping, overlapped>>

\* Faulty: a failed handshake leaves its process alone.
HandshakeLeaves(l) ==
  LET p == loading[l].proc IN
  /\ LoadAt(l, "handshake")
  /\ \/ /\ process[p].alive
        /\ process' = [process EXCEPT ![p].status = "healthy"]
        /\ loading' = [loading EXCEPT ![l].at = "publish"]
     \/ /\ process' = [process EXCEPT ![p].ctx = "done"]
        /\ loading' = [loading EXCEPT ![l] = NoLoad]
  /\ UNCHANGED <<table, row, stopping, overlapped>>

\* The handshake fails, on its own or because the process is gone; then the
\* process is killed.
LoadHandshake(l) ==
  LET p == loading[l].proc IN
  /\ LoadAt(l, "handshake")
  /\ \/ /\ process[p].alive
        /\ process' = [process EXCEPT ![p].status = "healthy"]
        /\ loading' = [loading EXCEPT ![l].at = "publish"]
     \/ /\ process' = [process EXCEPT ![p].alive = FALSE, ![p].ctx = "done"]
        /\ loading' = [loading EXCEPT ![l] = NoLoad]
  /\ UNCHANGED <<table, row, stopping, overlapped>>

\* Whatever the table holds by now is overwritten.
LoadPublish(l) ==
  /\ LoadAt(l, "publish")
  /\ table' = loading[l].proc
  /\ loading' = [loading EXCEPT ![l].at = "record"]
  /\ UNCHANGED <<process, row, stopping, overlapped>>

\* CreatePlugin is an insert whose error is ignored: a row from an earlier load
\* keeps its status.  The health loop starts.
LoadRecord(l) ==
  /\ LoadAt(l, "record")
  /\ row' = IF row = "none" THEN "active" ELSE row
  /\ process' = [process EXCEPT ![loading[l].proc].loop = "wait"]
  /\ loading' = [loading EXCEPT ![l] = NoLoad]
  /\ UNCHANGED <<table, stopping, overlapped>>

-----------------------------------------------------------------------------
(* The health loop of a process. *)

LoopAt(p, label) == process[p].loop = label

\* Faulty: the loop updates the row with a context of its own.
ReportAnyway(p) ==
  /\ LoopAt(p, "report")
  /\ row' = IF row # "none" THEN "active" ELSE row
  /\ process' = [process EXCEPT ![p].loop = "wait"]
  /\ UNCHANGED <<table, loading, stopping, overlapped>>

\* pingPlugin knows that a process has exited only when it was waited for.
HealthTick(p) ==
  /\ LoopAt(p, "wait")
  /\ process' =
       IF ~process[p].exited
       THEN [process EXCEPT ![p].errors = 0, ![p].status = "healthy",
                            ![p].loop = "report"]
       ELSE IF process[p].errors + 1 < 3
       THEN [process EXCEPT ![p].errors = @ + 1, ![p].loop = "report"]
       ELSE [process EXCEPT ![p].errors = @ + 1, ![p].status = "crashed",
                            ![p].loop = "backoff"]
  /\ UNCHANGED <<table, row, loading, stopping, overlapped>>

\* UpdatePlugin with the context of the process; it says active either way.
HealthReport(p) ==
  /\ LoopAt(p, "report")
  /\ row' = IF process[p].ctx = "live" /\ row # "none" THEN "active" ELSE row
  /\ process' = [process EXCEPT ![p].loop = "wait"]
  /\ UNCHANGED <<table, loading, stopping, overlapped>>

\* The context is done: in the loop, or in the backoff of restartPlugin.
HealthEnds(p) ==
  /\ process[p].loop \in {"wait", "backoff"} /\ process[p].ctx = "done"
  /\ process' = [process EXCEPT ![p].loop = "ended"]
  /\ UNCHANGED <<table, row, loading, stopping, overlapped>>

-----------------------------------------------------------------------------
(* StopPlugin, and the processes. *)

StopAt(s, label) == stopping[s].at = label

StopClaim(s) ==
  /\ StopAt(s, "idle") /\ table # NoProc
  /\ stopping' = [stopping EXCEPT ![s] = [at |-> "cancel", proc |-> table]]
  /\ table' = NoProc
  /\ UNCHANGED <<process, row, loading, overlapped>>

\* cancelFunc ends the loop and has the process killed; stdin is closed.
StopCancel(s) ==
  /\ StopAt(s, "cancel")
  /\ process' = [process EXCEPT ![stopping[s].proc].ctx = "done"]
  /\ stopping' = [stopping EXCEPT ![s].at = "wait"]
  /\ UNCHANGED <<table, row, loading, overlapped>>

\* Faulty: a process that does not exit in time is waited for all the same.
StopWaitsForExit(s) ==
  /\ StopAt(s, "wait") /\ ~process[stopping[s].proc].alive
  /\ process' = [process EXCEPT ![stopping[s].proc].exited = TRUE]
  /\ stopping' = [stopping EXCEPT ![s].at = "update"]
  /\ UNCHANGED <<table, row, loading, overlapped>>

\* Wait returns when the process has exited, which after five seconds it is
\* made to.
StopWait(s) ==
  /\ StopAt(s, "wait")
  /\ process' = [process EXCEPT ![stopping[s].proc].alive = FALSE,
                                ![stopping[s].proc].exited = TRUE]
  /\ stopping' = [stopping EXCEPT ![s].at = "update"]
  /\ UNCHANGED <<table, row, loading, overlapped>>

StopUpdate(s) ==
  /\ StopAt(s, "update")
  /\ row' = IF row = "none" THEN row ELSE "inactive"
  /\ process' = [process EXCEPT ![stopping[s].proc].status = "stopped"]
  /\ stopping' = [stopping EXCEPT ![s] = NoLoad]
  /\ UNCHANGED <<table, loading, overlapped>>

\* A plugin may end at any moment, by itself or because its context is done.
ProcessEnds(p) ==
  /\ process[p].alive
  /\ process' = [process EXCEPT ![p].alive = FALSE]
  /\ UNCHANGED <<table, row, loading, stopping, overlapped>>

-----------------------------------------------------------------------------

LoadStep(l) ==
  LoadCheck(l) \/ LoadStart(l) \/ LoadHandshake(l) \/ LoadPublish(l) \/ LoadRecord(l)
HealthStep(p) == HealthTick(p) \/ HealthReport(p) \/ HealthEnds(p)
StopStep(s) == StopClaim(s) \/ StopCancel(s) \/ StopWait(s) \/ StopUpdate(s)

PluginsNext ==
  \/ \E l \in Loaders : LoadStep(l)
  \/ \E p \in Procs : HealthStep(p) \/ ProcessEnds(p)
  \/ \E s \in Stoppers : StopStep(s)

PluginsSpec == PluginsInit /\ [][PluginsNext]_pluginVars

\* What was begun goes on: a load or a stop is asked for by somebody, its steps
\* then follow; the health loop ticks, and its select takes the end of the
\* context sooner or later.
PluginFairness ==
  /\ \A l \in Loaders : WF_pluginVars(LoadStep(l) /\ ~LoadCheck(l))
  /\ \A p \in Procs : WF_pluginVars(HealthStep(p)) /\ SF_pluginVars(HealthEnds(p))
  /\ \A s \in Stoppers :
       WF_pluginVars(StopCancel(s) \/ StopWait(s) \/ StopUpdate(s))

-----------------------------------------------------------------------------

InHand(p) ==
  \/ table = p
  \/ \E l \in Loaders : loading[l].proc = p
  \/ \E s \in Stoppers : stopping[s].proc = p

\* A live process is the one of the table, or one that a call is starting or
\* stopping: only two loads that overlap leave one behind
\* (manager.go:60-65 lets go of the lock before 107-109).
OnlyOverlapOrphans ==
  ~overlapped => \A p \in Procs : process[p].alive => InHand(p)

\* A plugin that was stopped stays inactive in the store until it is loaded
\* again: the health loop of a process that is out of hand writes nothing
\* (manager.go:213, 219, 401).
StoppedStaysInactive ==
  [][row = "inactive" /\ row' = "active" /\ ~overlapped
       => \E p \in Procs : InHand(p) /\ LoopAt(p, "report")]_pluginVars

\* A stop returns, even if the plugin never exits by itself, and the health
\* loop of its process ends (manager.go:388-398, 195).
StopReturnsAndLoopEnds ==
  /\ \A s \in Stoppers : ~StopAt(s, "idle") ~> StopAt(s, "idle")
  /\ \A p \in Procs : process[p].status = "stopped" ~> process[p].loop # "report"
                        /\ process[p].loop # "wait"

\* README.md, "MCP subprocess plugins with auto-restart": a plugin that has
\* crashed does not stay healthy in the table.
CrashIsNoticed ==
  \A p \in Procs :
    table = p /\ ~process[p].alive ~> table # p \/ process[p].status # "healthy"
=============================================================================
