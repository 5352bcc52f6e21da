\* A crash while the workflow runs.
CONSTANTS
  act = act
  send = send
  post = post
  ask = ask
  confirm = confirm
  c1 = c1
  c2 = c2
  c3 = c3
  c4 = c4
  None = None
  Steps <- MCSteps
  Level <- MCLevel
  Depth = 2
  Reasoning = {ask}
  RetryMax <- MCNoRetry
  IgnoreErrors = {}
  Fallback <- MCNoFallback
  TimedSteps = {}
  MayFail = {}
  MayPanic = {}
  TimedDecisions = {}
  FallbackChoice = {}
  OnTimeout = "none"
  Calls = {c1}
  Kinds = {"decision"}
  MaxInFlight = 1
  MaxCrashes = 1
  Disconnect = FALSE
  SignalCap = 1
SYMMETRY CallSymmetry
SPECIFICATION Spec
INVARIANTS
  SuspendedIsAnswerable
