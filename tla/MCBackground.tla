---------------------------- MODULE MCBackground ----------------------------
(***************************************************************************)
(* What runs in the background of the server, for TLC: the worker pool,    *)
(* the plugin manager and the calls to one plugin.  They share no state:   *)
(* one part moves in a behaviour and the others stay as they are, so that  *)
(* the states add up and do not multiply.                                  *)
(***************************************************************************)
EXTENDS WorkerPool, Plugins, PluginCalls

CONSTANTS j1, j2, j3, j4

VARIABLE part

parts == <<poolVars, pluginVars, callVars>>

\* j1 is a workflow.run action and j3 the step it waits for.
OneParent == [j \in Jobs |-> IF j = j1 THEN j3 ELSE None]

-----------------------------------------------------------------------------

\* Where no fairness is owed to the pool: it was shut down, its jobs rejected.
PoolAtRest ==
  /\ sub = [j \in Jobs |-> "rejected"] /\ work = [j \in Jobs |-> "none"]
  /\ sem = 0 /\ wg = 0 /\ closed = TRUE
  /\ metrics = [Active |-> 0, Completed |-> 0, Failed |-> 0, Panics |-> 0]
  /\ closer = [k \in Closers |-> "idle"]

BackgroundInit ==
  /\ part \in {"pool", "plugins", "calls"}
  /\ IF part = "pool" THEN Init ELSE PoolAtRest
  /\ PluginsInit /\ CallsInit

\* The bounds on processes and calls are used up.
Rest == part # "pool" /\ UNCHANGED <<part, parts>>

BackgroundNext ==
  \/ /\ part = "pool" /\ Next
     /\ UNCHANGED <<part, pluginVars, callVars>>
  \/ /\ part = "plugins" /\ PluginsNext
     /\ UNCHANGED <<part, poolVars, callVars>>
  \/ /\ part = "calls" /\ CallsNext
     /\ UNCHANGED <<part, poolVars, pluginVars>>
  \/ Rest

BackgroundSpec ==
  /\ BackgroundInit /\ [][BackgroundNext]_<<part, parts>>
  /\ PoolFairness /\ PluginFairness
=============================================================================
