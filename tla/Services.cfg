\* Two scheduled jobs over three ticks and a restart, the run of one of them may
\* wait for good; one agent's call, the panel and the runner on a template with
\* three versions, whose texts are in another order than their numbers (base two)
\* and whose list of one is cut; three appends of two processes; two agents over
\* three sessions; a server, an install and another install or an update, one of
\* which dies; two file steps, one of them tried again.
CONSTANTS
  a = a
  b = b
  c = c
  ScheduledJobs = {a, b}
  Period <- MCPeriod
  BadCron = {}
  Interactive = {b}
  MaxTime = 2
  MaxBoots = 1
  ToolCalls = {"t1"}
  PanelCall = "panel"
  RunnerCall = "runner"
  Agents = {"a1"}
  StoredBefore = 3
  MaxVersion = 5
  MaxRuns = 1
  Base = 2
  ListLimit = 1
  Appenders = {a, b, c}
  Processes = {"p", "q"}
  ProcessOf <- MCProcessOf
  MaxEvents = 3
  AgentIds = {"a1", "a2"}
  Channels = {"c1", "c2", "c3"}
  Notifiers = {"n1", "n2"}
  Procs = {"s", "i", "x"}
  Kinds <- MCKinds
  MaxKills = 1
  FileSteps = {"f1", "f2"}
  Dirs = {"d", "near", "far"}
  NumFiles = 2
  Device <- MCDevice
  Requests <- MCRequests
  MaxTries <- MCMaxTries
SPECIFICATION ServicesSpec
INVARIANTS
  OneRunAtATime
  PassedMeansRan
  LaterDefineLaterVersion
  RunsTakeTheLatest
  AppendsAreSerial
  ConnectedIsReachable
  ReloadsAreApplied
  
PROPERTIES
  DueIsServed
  StopEnds
