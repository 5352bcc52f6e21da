----------------------------- MODULE ToolServer ------------------------------
(***************************************************************************)
(* What the MCP tools, the panel and the runner of child workflows and     *)
(* scheduled jobs do around the executor: register the agent, define       *)
(* versions of a template, resolve one and create the workflow's row.      *)
(* Each statement on the store is a step; calls interleave.  One template  *)
(* name; a definition is named after the caller that stored it.            *)
(***************************************************************************)
EXTENDS Versions

CONSTANTS ToolCalls,   \* handleDefine and handleRun, one call at a time each
          PanelCall,   \* a user of the panel
          RunnerCall,  \* main's templateRunner
          Agents,      \* agent ids
          StoredBefore,\* versions in the store at the start
          MaxVersion,  \* bound
          MaxRuns      \* bound: workflows created by runs, and as many by reruns

Callers == ToolCalls \cup {PanelCall, RunnerCall}
Nobody == "nobody"     \* no agent, and the definition of no caller

ASSUME ToolServerAssumption ==
  /\ PanelCall # RunnerCall /\ {PanelCall, RunnerCall} \cap ToolCalls = {}
  /\ Nobody \notin Callers
  /\ StoredBefore \in 0..MaxVersion /\ MaxVersion \in Nat /\ MaxRuns \in Nat

VARIABLES
  templates, \* workflow_templates: version -> definition
  agents,    \* the agents table
  rows,      \* workflows created: version, and what was asked
  serving,   \* the calls of the callers
  newest     \* history: the greatest version a define has answered

toolVars == <<templates, agents, rows, serving, newest>>

\* floor: newest when the call began; read: its list of versions was read.
NoCall == [at |-> "idle", version |-> 0, floor |-> 0,
           agent |-> Nobody, limit |-> 0, read |-> TRUE]

ToolInit ==
  /\ templates = [v \in 1..StoredBefore |-> Nobody]
  /\ agents = {} /\ rows = <<>>
  /\ serving = [c \in Callers |-> NoCall]
  /\ newest = StoredBefore

-----------------------------------------------------------------------------
(* Defining and running. *)

Stored == DOMAIN templates
CallAt(c, label) == serving[c].at = label

\* ensureAgent is an upsert: two first calls do not disturb each other.
RegisterAgent(a) == agents' = agents \cup {a}

\* INSERT ... ON CONFLICT DO UPDATE: the definition of a version is replaced.
StoreTemplate(v, def) ==
  templates' = [w \in Stored \cup {v} |-> IF w = v THEN def ELSE templates[w]]

\* The row needs its agent in the agents table.
CreateWorkflow(row, a) == rows' = IF a \in agents THEN Append(rows, row) ELSE rows

\* The head of every tool call.  captureSession is in Sessions.
Enter(c, label, a) ==
  /\ c \in ToolCalls /\ CallAt(c, "idle")
  /\ RegisterAgent(a)
  /\ serving' = [serving EXCEPT ![c] =
       [NoCall EXCEPT !.at = label, !.agent = a, !.floor = newest]]
  /\ UNCHANGED <<templates, rows, newest>>

DefineStart(c) == \E a \in Agents : Enter(c, "version", a)

RunStart(c) == \E a \in Agents : Enter(c, "resolve", a)

\* The panel checks its form; it knows no agents and no sessions.
CreateTemplate ==
  /\ CallAt(PanelCall, "idle")
  /\ serving' = [serving EXCEPT ![PanelCall] =
       [NoCall EXCEPT !.at = "version", !.floor = newest, !.limit = ListLimit]]
  /\ UNCHANGED <<templates, agents, rows, newest>>

\* RunFromTemplate, for a job or a step whose agent may be unknown.
RunFromTemplate(a) ==
  /\ CallAt(RunnerCall, "idle")
  /\ serving' = [serving EXCEPT ![RunnerCall] =
       [NoCall EXCEPT !.at = "resolve", !.agent = a, !.floor = newest,
                      !.limit = ListLimit]]
  /\ UNCHANGED <<templates, agents, rows, newest>>

\* Faulty: the number of versions is taken for the last one, read as a text.
VersionByText(c) ==
  /\ CallAt(c, "version") /\ Stored # {}
  /\ \E v \in ListTemplates(Stored, 1) :
       serving' = [serving EXCEPT ![c].at = "store", ![c].version = v + 1]
  /\ UNCHANGED <<templates, agents, rows, newest>>

\* nextVersion reads the versions, or cannot and goes on with the first ...
DefineVersion(c) ==
  /\ CallAt(c, "version")
  /\ \E read \in BOOLEAN :
       LET next == NextVersion(read, Stored, serving[c].limit) IN
       /\ next <= MaxVersion
       /\ serving' = [serving EXCEPT ![c].at = "store", ![c].version = next,
                                     ![c].read = read]
  /\ UNCHANGED <<templates, agents, rows, newest>>

\* ... and the row is stored later, over one of that version if there is one,
\* and the version answered.
DefineStore(c) ==
  /\ CallAt(c, "store")
  /\ LET v == serving[c].version IN
     /\ StoreTemplate(v, c)
     /\ newest' = IF v > newest THEN v ELSE newest
  /\ serving' = [serving EXCEPT ![c] = NoCall]
  /\ UNCHANGED <<agents, rows>>

\* Faulty: the first of the list, which is in the order of texts.
ResolveFirst(c) ==
  /\ CallAt(c, "resolve") /\ Stored # {}
  /\ \E v \in ListTemplates(Stored, 1) :
       serving' = [serving EXCEPT ![c].at = "create", ![c].version = v]
  /\ UNCHANGED <<templates, agents, rows, newest>>

\* resolveTemplate without a version.
ResolveLatest(c) ==
  /\ CallAt(c, "resolve")
  /\ IF Stored = {}
     THEN serving' = [serving EXCEPT ![c] = NoCall]
     ELSE LET v == Latest(ListTemplates(Stored, serving[c].limit)) IN
          serving' = [serving EXCEPT ![c].at = "create", ![c].version = v]
  /\ UNCHANGED <<templates, agents, rows, newest>>

\* ... and with one, which need not exist, nor be the latest.
ResolveVersion(c, v) ==
  /\ CallAt(c, "resolve")
  /\ serving' = IF v \in Stored
                THEN [serving EXCEPT ![c].at = "create", ![c].version = v,
                        ![c].floor = 0]
                ELSE [serving EXCEPT ![c] = NoCall]
  /\ UNCHANGED <<templates, agents, rows, newest>>

RunCreate(c) ==
  /\ CallAt(c, "create") /\ Len(rows) < MaxRuns
  /\ CreateWorkflow([version |-> serving[c].version, floor |-> serving[c].floor,
                     limit |-> serving[c].limit],
                    serving[c].agent)
  /\ serving' = [serving EXCEPT ![c] = NoCall]
  /\ UNCHANGED <<templates, agents, newest>>

\* handleRerunWorkflow copies a row, its definition included.
Rerun(i) ==
  /\ CallAt(PanelCall, "idle") /\ i \in DOMAIN rows /\ Len(rows) < 2 * MaxRuns
  /\ rows' = Append(rows, rows[i])
  /\ UNCHANGED <<templates, agents, serving, newest>>

\* StoreTemplate is the one statement whose error ends a define that has begun.
DefineFails(c) ==
  /\ CallAt(c, "store")
  /\ serving' = [serving EXCEPT ![c] = NoCall]
  /\ UNCHANGED <<templates, agents, rows, newest>>

\* A run ends with the error of its list, its template or its row.
RunFails(c) ==
  /\ serving[c].at \in {"resolve", "create"}
  /\ serving' = [serving EXCEPT ![c] = NoCall]
  /\ UNCHANGED <<templates, agents, rows, newest>>

-----------------------------------------------------------------------------

ToolNext ==
  \/ \E c \in Callers :
       \/ DefineStart(c) \/ RunStart(c) \/ DefineVersion(c) \/ DefineStore(c)
       \/ DefineFails(c) \/ ResolveLatest(c) \/ RunCreate(c) \/ RunFails(c)
       \/ \E v \in {1, MaxVersion} : ResolveVersion(c, v)
  \/ CreateTemplate
  \/ \E a \in Agents : RunFromTemplate(a)
  \/ \E i \in 1..(2 * MaxRuns) : Rerun(i)

ToolSpec == ToolInit /\ [][ToolNext]_toolVars

-----------------------------------------------------------------------------
(* Properties. *)

\* The list of the panel and of main holds the latest version.
Complete(stored) == stored = {} \/ Latest(stored) \in ListTemplates(stored, ListLimit)

\* A define that begins when another has been answered gets a later version,
\* and so replaces no definition that was stored when it began: only calls that
\* overlap get the same version.  The code keeps this as long as the define can
\* read its list and the panel's is not cut: an error of ListTemplates gives v1
\* (panel/api.go:246-248, tools.go:353-356).
LaterDefineLaterVersion ==
  \A c \in Callers :
    CallAt(c, "store") /\ serving[c].read
      /\ (c \in ToolCalls \/ Complete(1..serving[c].floor))
      => serving[c].version > serving[c].floor

\* docs/mcp-tools.md:43, "Register a reusable workflow template with
\* auto-versioning": a definition that is stored stays what it is.  The code
\* does not keep it: two calls that overlap store one version, and a define
\* that cannot read the list stores v1 again (tools.go:354).
StoredIsKept == [][\A v \in Stored : templates'[v] = templates[v]]_toolVars

\* A run that names no version takes one at least as late as any that was
\* answered before it began (tools.go:328-349; main.go:417-434 while its list is
\* not cut).
RunsTakeTheLatest ==
  \A i \in DOMAIN rows :
    rows[i].limit = 0 \/ Complete(1..rows[i].floor)
      => rows[i].version >= rows[i].floor
=============================================================================
