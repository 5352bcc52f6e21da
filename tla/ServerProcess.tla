---------------------------- MODULE ServerProcess ----------------------------
(***************************************************************************)
(* The processes of cmd/opcode that share ~/.opcode: servers (opcode       *)
(* serve), installs, which write the settings and signal the server that   *)
(* the pid file names or become one, and updates, which stop it.  An       *)
(* environment variable that overrides the settings is left out; the       *)
(* settings are the panel flag, the one that changes what is served.       *)
(***************************************************************************)
EXTENDS Integers

CONSTANTS Procs,    \* processes, each started once
          Kinds,    \* [Procs -> what each may be: serve, install, update]
          MaxKills  \* bound: processes that die on their own

NoProcess == "nobody"

ASSUME ServerProcessAssumption ==
  /\ NoProcess \notin Procs
  /\ Kinds \in [Procs -> SUBSET {"serve", "install", "update"}]
  /\ MaxKills \in Nat

VARIABLES
  kind,     \* what each process is
  at,       \* where each process is
  settings, \* what was last written to settings.json: [panel, version], the
            \* version counts the writes
  file,     \* the text of settings.json: "whole", "empty" once it is cut off,
            \* or "mixed" of two writes
  pidFile,  \* the process the pid file names
  listener, \* the process that listens on the address
  cfg,      \* runServe's cfg
  panelOn,  \* the handler in the swapper serves the panel
  hup,      \* sighupCh, of capacity one
  loaded,   \* newCfg of the reload that runs
  term,     \* sigCh, of capacity one
  target,   \* the process an install or an update is about to signal
  owed,     \* history: the version of the settings when a reload was last
            \* asked for
  torn,     \* history: nobody has asked for a reload since one read a file
            \* that was not whole
  kills     \* processes that died so far

processVars == <<kind, at, settings, file, pidFile, listener, cfg, panelOn,
                 hup, loaded, term, target, owed, torn, kills>>

\* The process ignores no signal before it asks for them.
Handles(p) == at[p] \in {"ready", "serving", "stopping"}
IsUp(p) == at[p] \notin {"new", "gone"}

\* defaultConfig: what a file that is missing, or does not parse, leaves.
Defaults == [panel |-> FALSE, version |-> 0]
NoConfig == [panel |-> FALSE, version |-> -1]

ProcessInit ==
  /\ kind \in {k \in [Procs -> UNION {Kinds[p] : p \in Procs}] :
                \A p \in Procs : k[p] \in Kinds[p]}
  /\ at = [p \in Procs |-> "new"]
  /\ settings = Defaults /\ file = "whole"
  /\ pidFile = NoProcess /\ listener = NoProcess
  /\ cfg = [p \in Procs |-> NoConfig]
  /\ panelOn = [p \in Procs |-> FALSE]
  /\ hup = [p \in Procs |-> FALSE]
  /\ loaded = [p \in Procs |-> NoConfig]
  /\ term = [p \in Procs |-> FALSE]
  /\ target = [p \in Procs |-> NoProcess]
  /\ owed = [p \in Procs |-> 0]
  /\ torn = [p \in Procs |-> FALSE]
  /\ kills = 0

Step(p, from, to) == at[p] = from /\ at' = [at EXCEPT ![p] = to]

-----------------------------------------------------------------------------
(* Serve. *)

StartServe(p) ==
  /\ kind[p] = "serve" /\ Step(p, "new", "load")
  /\ UNCHANGED <<settings, file, pidFile, listener, cfg, panelOn, hup, loaded,
                 term, target, owed, torn, kills>>

\* The error of a text that does not parse is not looked at.
ReadSettings == IF file = "whole" THEN settings ELSE Defaults

LoadConfig(p) ==
  /\ Step(p, "load", "boot")
  /\ cfg' = [cfg EXCEPT ![p] = ReadSettings]
  /\ UNCHANGED <<settings, file, pidFile, listener, panelOn, hup, loaded, term,
                 target, owed, torn, kills>>

\* Whatever the file says by now.
WritePidfile(p) ==
  /\ Step(p, "boot", "starting")
  /\ pidFile' = p
  /\ UNCHANGED <<settings, file, listener, cfg, panelOn, hup, loaded, term,
                 target, owed, torn, kills>>

\* The store, the executor, the scheduler with what it missed, and the mux,
\* before the signals are asked for.
Prepare(p) ==
  /\ Step(p, "starting", "ready")
  /\ panelOn' = [panelOn EXCEPT ![p] = cfg[p].panel]
  /\ UNCHANGED <<settings, file, pidFile, listener, cfg, hup, loaded, term,
                 target, owed, torn, kills>>

Listen(p) ==
  /\ listener = NoProcess /\ Step(p, "ready", "serving")
  /\ listener' = p
  /\ UNCHANGED <<settings, file, pidFile, cfg, panelOn, hup, loaded, term,
                 target, owed, torn, kills>>

\* os.Exit(1): removePidfile, deferred, does not run.
AddressInUse(p) ==
  /\ listener # NoProcess /\ Step(p, "ready", "gone")
  /\ UNCHANGED <<settings, file, pidFile, listener, cfg, panelOn, hup, loaded,
                 term, target, owed, torn, kills>>

\* The goroutine that waits for a signal cancels and shuts the listener down;
\* ListenAndServe returns at once, also when it has yet to begin.
StopListening(p) ==
  /\ term[p] /\ at[p] \in {"ready", "serving"}
  /\ at' = [at EXCEPT ![p] = "stopping"]
  /\ listener' = IF listener = p THEN NoProcess ELSE listener
  /\ UNCHANGED <<settings, file, pidFile, cfg, panelOn, hup, loaded, term,
                 target, owed, torn, kills>>

\* The scheduler and the plugins have stopped: the file is removed.
Exit(p) ==
  /\ Step(p, "stopping", "gone")
  /\ pidFile' = NoProcess
  /\ UNCHANGED <<settings, file, listener, cfg, panelOn, hup, loaded, term,
                 target, owed, torn, kills>>

\* The reload goroutine takes the signal ...
TakeHup(p) ==
  /\ Handles(p) /\ hup[p] /\ loaded[p] = NoConfig
  /\ hup' = [hup EXCEPT ![p] = FALSE]
  /\ loaded' = [loaded EXCEPT ![p] = ReadSettings]
  /\ torn' = [torn EXCEPT ![p] = file # "whole"]
  /\ UNCHANGED <<at, settings, file, pidFile, listener, cfg, panelOn, term,
                 target, owed, kills>>

\* ... swaps the handler if the panel changed, and keeps what it loaded.
Reload(p) ==
  /\ Handles(p) /\ loaded[p] # NoConfig
  /\ panelOn' = [panelOn EXCEPT ![p] =
                   IF loaded[p].panel # cfg[p].panel THEN loaded[p].panel ELSE @]
  /\ cfg' = [cfg EXCEPT ![p] = loaded[p]]
  /\ loaded' = [loaded EXCEPT ![p] = NoConfig]
  /\ UNCHANGED <<at, settings, file, pidFile, listener, hup, term, target,
                 owed, torn, kills>>

-----------------------------------------------------------------------------
(* Install and update. *)

\* runInstall: os.WriteFile cuts the file off ...
CutSettings(p) ==
  /\ kind[p] = "install" /\ Step(p, "new", "cut")
  /\ file' = "empty"
  /\ UNCHANGED <<settings, pidFile, listener, cfg, panelOn, hup, loaded, term,
                 target, owed, torn, kills>>

\* ... and writes from its start, over what another has written since: the end
\* of a longer text stays.
WriteSettings(p) ==
  /\ Step(p, "cut", "find")
  /\ \E panel \in BOOLEAN :
       settings' = [panel |-> panel, version |-> settings.version + 1]
  /\ file' \in IF file = "empty" THEN {"whole"} ELSE {"whole", "mixed"}
  /\ UNCHANGED <<pidFile, listener, cfg, panelOn, hup, loaded, term, target,
                 owed, torn, kills>>

\* runUpdate has replaced the binary.
StartUpdate(p) ==
  /\ kind[p] = "update" /\ Step(p, "new", "find")
  /\ UNCHANGED <<settings, file, pidFile, listener, cfg, panelOn, hup, loaded,
                 term, target, owed, torn, kills>>

\* signalRunningServer and stopIfRunning: a process the file names and that
\* lives; else an install serves itself.
FindServer(p) ==
  /\ at[p] = "find"
  /\ IF pidFile # NoProcess /\ IsUp(pidFile)
     THEN /\ at' = [at EXCEPT ![p] = "signal"]
          /\ target' = [target EXCEPT ![p] = pidFile]
     ELSE /\ at' = [at EXCEPT ![p] =
                      IF kind[p] = "install" THEN "load" ELSE "gone"]
          /\ UNCHANGED target
  /\ UNCHANGED <<settings, file, pidFile, listener, cfg, panelOn, hup, loaded,
                 term, owed, torn, kills>>

\* Faulty: a channel that holds nothing; a reload that runs misses the signal.
SendUnbuffered(p) ==
  LET q == target[p] IN
  /\ at[p] = "signal" /\ Handles(q)
  /\ at' = [at EXCEPT ![p] = "gone"]
  /\ hup' = [hup EXCEPT ![q] =
               @ \/ (kind[p] = "install" /\ loaded[q] = NoConfig)]
  /\ owed' = [owed EXCEPT ![q] =
                IF kind[p] = "install" THEN settings.version ELSE @]
  /\ torn' = [torn EXCEPT ![q] = @ /\ kind[p] # "install"]
  /\ term' = [term EXCEPT ![q] = @ \/ kind[p] = "update"]
  /\ UNCHANGED <<settings, file, pidFile, listener, cfg, panelOn, loaded,
                 target, kills>>

\* A signal that nobody asked for ends the process, one that a full channel
\* cannot take is dropped, and one to a process that is gone is an error: the
\* install then serves itself.
SendSignal(p) ==
  LET q == target[p] IN
  /\ at[p] = "signal"
  /\ at' = [r \in Procs |->
              IF r = p
              THEN IF kind[p] = "install" /\ ~IsUp(q) THEN "load" ELSE "gone"
              ELSE IF r = q /\ IsUp(q) /\ ~Handles(q) THEN "gone" ELSE at[r]]
  /\ hup' = [hup EXCEPT ![q] = @ \/ (kind[p] = "install" /\ Handles(q))]
  /\ owed' = [owed EXCEPT ![q] = IF kind[p] = "install" /\ Handles(q)
                                 THEN settings.version ELSE @]
  /\ torn' = [torn EXCEPT ![q] = @ /\ ~(kind[p] = "install" /\ Handles(q))]
  /\ term' = [term EXCEPT ![q] = @ \/ (kind[p] = "update" /\ Handles(q))]
  /\ UNCHANGED <<settings, file, pidFile, listener, cfg, panelOn, loaded,
                 target, kills>>

-----------------------------------------------------------------------------

\* A crash, or kill -9: the system closes the listener.
Kill(p) ==
  /\ IsUp(p) /\ kind[p] # "update" /\ kills < MaxKills
  /\ at' = [at EXCEPT ![p] = "gone"]
  /\ listener' = IF listener = p THEN NoProcess ELSE listener
  /\ kills' = kills + 1
  /\ UNCHANGED <<settings, file, pidFile, cfg, panelOn, hup, loaded, term,
                 target, owed, torn>>

ProcessStep(p) ==
  \/ LoadConfig(p) \/ WritePidfile(p) \/ Prepare(p)
  \/ Listen(p) \/ AddressInUse(p) \/ StopListening(p) \/ Exit(p)
  \/ TakeHup(p) \/ Reload(p)
  \/ WriteSettings(p) \/ FindServer(p) \/ SendSignal(p)

ProcessNext ==
  /\ UNCHANGED kind
  /\ \E p \in Procs :
       \/ StartServe(p) \/ CutSettings(p) \/ StartUpdate(p) \/ Kill(p)
       \/ ProcessStep(p)

ProcessSpec == ProcessInit /\ [][ProcessNext]_processVars
               /\ \A p \in Procs : WF_processVars(UNCHANGED kind /\ ProcessStep(p))

-----------------------------------------------------------------------------

\* A reload that was asked for is not lost: until the server has settings as
\* new as those of the last install that signalled it, a signal waits or a
\* reload runs, also when installs come faster than reloads and the channel
\* of capacity one drops signals (main.go:219-249).  The exception is a reload
\* that read the file while an install was writing it: it puts the defaults in
\* force (config.go:46-48).
ReloadIsNotLost ==
  \A p \in Procs :
    Handles(p) => \/ hup[p]
                  \/ loaded[p].version >= owed[p]
                  \/ cfg[p].version >= owed[p]
                  \/ torn[p]

\* The defaults do not stay: the install that was writing has yet to ask for
\* another reload, unless a process died, two installs wrote into each other's
\* text, or the pid file does not name this server (install.go:67-83).
CutOffIsMended ==
  \A p \in Procs :
    Handles(p) /\ torn[p]
      => \/ \E i \in Procs :
              kind[i] = "install" /\ at[i] \in {"cut", "find", "signal"}
         \/ kills > 0 \/ file = "mixed" \/ pidFile # p

\* Between two reloads the panel is served if and only if the configuration
\* in force says so: the diff against the configuration of the last reload
\* misses no change (main.go:224-246, config.go:87-108).
PanelFollowsConfig ==
  \A p \in Procs : Handles(p) /\ loaded[p] = NoConfig => panelOn[p] = cfg[p].panel

\* What an install asks a server for comes into force, and nothing else.
ReloadsAreApplied == ReloadIsNotLost /\ CutOffIsMended /\ PanelFollowsConfig

\* A server that stays comes to serve the settings of the last install
\* (operations.md:49); one whose pid file another process has overwritten or
\* removed is told nothing, and one that read a file cut off by an install that
\* died then stays with the defaults.
InstallReloads ==
  [](\A p \in Procs :
      at[p] = "serving" /\ cfg[p].version < settings.version
        => <>(at[p] # "serving" \/ cfg[p].version = settings.version))
=============================================================================
