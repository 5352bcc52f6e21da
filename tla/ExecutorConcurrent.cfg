\* Calls of every kind, two at a time, and a crash.
CONSTANTS
  act = act
  send = send
  post = post
  ask = ask
  confirm = confirm
  c1 = c1
  c2 = c2
  c3 = c3
  c4 = c4
  None = None
  Steps <- MCSteps
  Level <- MCLevel
  Depth = 2
  Reasoning = {ask}
  RetryMax <- MCNoRetry
  IgnoreErrors = {}
  Fallback <- MCNoFallback
  TimedSteps = {}
  MayFail = {act}
  MayPanic = {}
  TimedDecisions = {}
  FallbackChoice = {}
  OnTimeout = "none"
  Calls = {c1, c2, c3}
  Kinds = {"decision", "cancel_decision", "panel", "cancel"}
  MaxInFlight = 2
  MaxCrashes = 1
  Disconnect = FALSE
  SignalCap = 1
SYMMETRY CallSymmetry
SPECIFICATION Spec
INVARIANTS
  DependenciesDone
  ReasonedCompletion
PROPERTIES
  DecisionFinal
