\* A step timeout, a failure and its retry, a panic, a lost connection and a
\* concurrent cancellation, with the fairness of the scheduler.
CONSTANTS
  act = act
  send = send
  post = post
  ask = ask
  confirm = confirm
  c1 = c1
  c2 = c2
  c3 = c3
  c4 = c4
  None = None
  Steps <- MCTwoSteps
  Level <- MCTwoLevels
  Depth = 1
  Reasoning = {ask}
  RetryMax <- MCRetryOnce
  IgnoreErrors = {}
  Fallback <- MCNoFallback
  TimedSteps = {act}
  MayFail = {act}
  MayPanic = {act}
  TimedDecisions = {}
  FallbackChoice = {}
  OnTimeout = "none"
  Calls = {c1, c2}
  Kinds = {"cancel"}
  MaxInFlight = 2
  MaxCrashes = 0
  Disconnect = TRUE
  SignalCap = 1
SPECIFICATION FairSpec
PROPERTIES
  EveryCallReturns
