\* One agent that makes one call at a time and no crash: retries, a fallback
\* step, two decisions side by side, decision timeouts and cancellation.
CONSTANTS
  act = act
  send = send
  post = post
  ask = ask
  confirm = confirm
  c1 = c1
  c2 = c2
  c3 = c3
  c4 = c4
  None = None
  Steps <- MCFiveSteps
  Level <- MCFiveLevels
  Depth = 2
  Reasoning = {ask, confirm}
  RetryMax <- MCRetryOnce
  IgnoreErrors = {post}
  Fallback <- MCFallback
  TimedSteps = {}
  MayFail = {act, send, post}
  MayPanic = {}
  TimedDecisions = {ask, confirm}
  FallbackChoice = {ask, confirm}
  OnTimeout = "none"
  Calls = {c1, c2, c3, c4}
  Kinds = {"decision", "cancel"}
  MaxInFlight = 1
  MaxCrashes = 0
  Disconnect = FALSE
  SignalCap = 1
SYMMETRY CallSymmetry
SPECIFICATION Spec
INVARIANTS
  TypeOK
  SuspendedIsAnswerable
  ViewMatchesLog
  NoSilentFailure
PROPERTIES
  TerminalIsFinal
