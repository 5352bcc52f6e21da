\* One call at a time, answers from the agent and from the panel, decisions
\* that run out of time, a deadline and a crash.
CONSTANTS
  act = act
  send = send
  post = post
  ask = ask
  confirm = confirm
  c1 = c1
  c2 = c2
  c3 = c3
  c4 = c4
  None = None
  Steps <- MCThreeSteps
  Level <- MCThreeLevels
  Depth = 2
  Reasoning = {ask, confirm}
  RetryMax <- MCRetryOnce
  IgnoreErrors = {}
  Fallback <- MCNoFallback
  TimedSteps = {}
  MayFail = {act}
  MayPanic = {}
  TimedDecisions = {confirm}
  FallbackChoice = {}
  OnTimeout = "suspend"
  Calls = {c1, c2, c3}
  Kinds = {"decision", "cancel_decision", "panel"}
  MaxInFlight = 1
  MaxCrashes = 1
  Disconnect = FALSE
  SignalCap = 1
SYMMETRY CallSymmetry
SPECIFICATION Spec
PROPERTIES
  ImplementsLifecycle
