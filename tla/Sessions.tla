------------------------------- MODULE Sessions -------------------------------
(***************************************************************************)
(* SessionRegistry and MCPNotifier of pkg/mcp: every tool call that names  *)
(* an agent remembers the session it came through, workflow.notify sends   *)
(* to the session remembered, and one that is gone is forgotten only then. *)
(***************************************************************************)
CONSTANTS AgentIds,    \* agent ids
          Channels,  \* MCP sessions, each opened once
          Notifiers  \* workflow.notify steps that run at the same time

NoSession == "none"

ASSUME SessionsAssumption == NoSession \notin Channels

VARIABLES
  session,   \* SessionRegistry.sessions
  alive,     \* sessions: "new", "open" or "closed"
  current,   \* history: the session of the agent's last call
  notify     \* the Notify calls

sessionVars == <<session, alive, current, notify>>

NoNotify == [at |-> "idle", to |-> NoSession]

SessionsInit ==
  /\ session = [a \in AgentIds |-> NoSession]
  /\ alive = [c \in Channels |-> "new"]
  /\ current = [a \in AgentIds |-> NoSession]
  /\ notify = [n \in Notifiers |-> NoNotify]

Connect(c) ==
  /\ alive[c] = "new"
  /\ alive' = [alive EXCEPT ![c] = "open"]
  /\ UNCHANGED <<session, current, notify>>

\* Nothing tells the registry.
Disconnect(c) ==
  /\ alive[c] = "open"
  /\ alive' = [alive EXCEPT ![c] = "closed"]
  /\ UNCHANGED <<session, current, notify>>

\* Faulty: an agent keeps its first session.
CaptureOnce(a, c) ==
  /\ alive[c] # "new"
  /\ session' = IF session[a] = NoSession THEN [session EXCEPT ![a] = c] ELSE session
  /\ current' = [current EXCEPT ![a] = c]
  /\ UNCHANGED <<alive, notify>>

\* captureSession, in every call of opcode.run, .signal and .define, also one
\* whose session has closed since it came.
CaptureSession(a, c) ==
  /\ alive[c] # "new"
  /\ session' = [session EXCEPT ![a] = c]
  /\ current' = [current EXCEPT ![a] = c]
  /\ UNCHANGED <<alive, notify>>

\* Notify looks the session up; without one it is done at once ...
NotifyLookup(n, a) ==
  /\ notify[n].at = "idle"
  /\ notify' = [notify EXCEPT ![n] = IF session[a] = NoSession THEN NoNotify
                                     ELSE [at |-> "send", to |-> session[a]]]
  /\ UNCHANGED <<session, alive, current>>

\* ... sends, and learns whether the session is still there ...
NotifySend(n) ==
  /\ notify[n].at = "send"
  /\ notify' = IF alive[notify[n].to] = "open"
               THEN [notify EXCEPT ![n] = NoNotify]
               ELSE [notify EXCEPT ![n].at = "remove"]
  /\ UNCHANGED <<session, alive, current>>

\* ... and Remove deletes the mappings to that session, whoever has them.
NotifyRemove(n) ==
  /\ notify[n].at = "remove"
  /\ session' = [a \in AgentIds |->
                   IF session[a] = notify[n].to THEN NoSession ELSE session[a]]
  /\ notify' = [notify EXCEPT ![n] = NoNotify]
  /\ UNCHANGED <<alive, current>>

SessionsNext ==
  \/ \E c \in Channels :
       \/ Connect(c) \/ Disconnect(c)
       \/ \E a \in AgentIds : CaptureSession(a, c)
  \/ \E n \in Notifiers :
       \/ NotifySend(n) \/ NotifyRemove(n)
       \/ \E a \in AgentIds : NotifyLookup(n, a)

SessionsSpec == SessionsInit /\ [][SessionsNext]_sessionVars

-----------------------------------------------------------------------------

\* An agent whose last session is open can be reached through it: cleaning up
\* after a session that is gone never takes back a reconnection, whatever
\* notifications were on their way (sessions.go:21-43, notifier.go:27-40).
ConnectedIsReachable ==
  \A a \in AgentIds :
    current[a] # NoSession /\ alive[current[a]] = "open"
      => session[a] = current[a]
=============================================================================
