----------------------------- MODULE MCServices -----------------------------
(***************************************************************************)
(* The services around the executor, for TLC: the scheduler, the MCP tools *)
(* and the panel, the event log, the sessions, the server process and the  *)
(* file actions.  They share no state: one part moves in a behaviour and   *)
(* the others stay as they are, so that the states add up and do not       *)
(* multiply.                                                               *)
(***************************************************************************)
EXTENDS Scheduler, ToolServer, EventLog, Sessions, ServerProcess, FileActions

CONSTANTS a, b, c

VARIABLE part

parts == <<schedulerVars, toolVars, eventLogVars, sessionVars, processVars,
           fileVars>>

-----------------------------------------------------------------------------
(* Values of the constants. *)

\* a is due at every tick, b at every second one.
MCPeriod == [j \in ScheduledJobs |-> IF j = a THEN 1 ELSE 2]

\* a and b append from one process, c from another.
MCProcessOf == [x \in Appenders |-> IF x = c THEN "q" ELSE "p"]

\* A server, an install, and what installs or updates.
MCKinds == [p \in Procs |-> CASE p = "s" -> {"serve"}
                              [] p = "i" -> {"install"}
                              [] OTHER -> {"install", "update"}]

\* far is on a file system of its own.
MCDevice == [d \in Dirs |-> IF d = "far" THEN 2 ELSE 1]

\* Moves to the other file system and to a directory next to it, and what
\* may happen next to them; the second step leaves directories alone.
AllRequests ==
  {[op |-> "move", from |-> "d", to |-> "far", file |-> 0],
   [op |-> "move", from |-> "d", to |-> "near", file |-> 0],
   [op |-> "move", from |-> "d", to |-> "near", file |-> 1],
   [op |-> "copy", from |-> "d", to |-> "near", file |-> 1],
   [op |-> "append", from |-> "d", to |-> "d", file |-> 1],
   [op |-> "write", from |-> "d", to |-> "d", file |-> 1],
   [op |-> "delete", from |-> "d", to |-> "d", file |-> 0]}

MCRequests == [s \in FileSteps |->
  IF s = "f1" THEN AllRequests
  ELSE {r \in AllRequests : r.op \in {"append", "write"}}]

\* One of two steps is tried again.
MCMaxTries == [s \in FileSteps |-> IF s = "f1" THEN 2 ELSE 1]

-----------------------------------------------------------------------------

\* The scheduler that does not move was stopped: no fairness is owed to it.
SchedulerAtRest ==
  /\ jobs = [j \in ScheduledJobs |-> NoRow]
  /\ clock = MaxTime /\ tickReady = TRUE
  /\ phase = "stopped" /\ boots = MaxBoots
  /\ scan = [s \in Scanners |-> IdleScan]
  /\ inflight = {} /\ handled = {}

ServicesInit ==
  /\ part \in {"scheduler", "tools", "log", "sessions", "process", "files"}
  /\ IF part = "scheduler" THEN SchedulerInit ELSE SchedulerAtRest
  /\ ToolInit /\ EventLogInit /\ SessionsInit /\ ProcessInit
  /\ part # "process" => kind["x"] = "install"
  /\ IF part = "files" THEN TRUE ELSE dirs = Dirs
  /\ FileInit

\* The bounds on starts, events, sessions, processes and attempts are used up.
Rest == part \notin {"tools"} /\ UNCHANGED <<part, parts>>

ServicesNext ==
  \/ /\ part = "scheduler" /\ SchedulerNext
     /\ UNCHANGED <<part, toolVars, eventLogVars, sessionVars, processVars,
                    fileVars>>
  \/ /\ part = "tools" /\ ToolNext
     /\ UNCHANGED <<part, schedulerVars, eventLogVars, sessionVars,
                    processVars, fileVars>>
  \/ /\ part = "log" /\ EventLogNext
     /\ UNCHANGED <<part, schedulerVars, toolVars, sessionVars, processVars,
                    fileVars>>
  \/ /\ part = "sessions" /\ SessionsNext
     /\ UNCHANGED <<part, schedulerVars, toolVars, eventLogVars, processVars,
                    fileVars>>
  \/ /\ part = "process" /\ ProcessNext
     /\ UNCHANGED <<part, schedulerVars, toolVars, eventLogVars, sessionVars,
                    fileVars>>
  \/ /\ part = "files" /\ FileNext
     /\ UNCHANGED <<part, schedulerVars, toolVars, eventLogVars, sessionVars,
                    processVars>>
  \/ Rest

ServicesSpec ==
  ServicesInit /\ [][ServicesNext]_<<part, parts>> /\ SchedulerFairness
=============================================================================
