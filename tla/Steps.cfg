\* Four callers share a breaker that lets two probes through, one of them may
\* leave without recording an outcome; flow steps over two branches or rounds
\* of two sub-steps; every graph of three steps with lists of two, and of four
\* steps with sorted lists; durations of six bits; output of three bytes;
\* two streams with room for one event and two publishers.
CONSTANTS
  c1 = c1
  c2 = c2
  c3 = c3
  c4 = c4
  Callers = {c1, c2, c3, c4}
  FailureThreshold = 2
  HalfOpenMax = 2
  MayAbandon = {c1}
  Modes = {"condition", "for_each", "while", "until", "all", "race"}
  Width = 2
  Length = 2
  Body <- MCBody
  MayFail <- MCMayFail
  IgnoreErrors <- MCIgnored
  MaxIters = {0, 1}
  SignalCap = 1
  MaxSignals = 2
  MaxSteps = 3
  MaxLongest = 4
  MaxDeps = 2
  Bits = 6
  Delays = {1, 3}
  MaxDelays = {4, 20}
  MaxAttempts = 8
  BodyLimit = 3
  Sizes = {0, 1, 2, 4}
  Redirects = {0, 1, 2, 3}
  Readers = {"r"}
  Producers = {"s", "t"}
  Values <- MCValues
  Outputs <- MCOutputs
  Params <- MCParams
  InputData <- MCInputData
  Accumulated <- MCAccumulated
  Vault <- MCVault
  Streams = {"s1", "s2"}
  Publishers = {"p1", "p2"}
  Workflows = {"w1", "w2"}
  AllEvents = "all"
  Buffer = 1
  MaxEmits = 2
SPECIFICATION StepsSpec
INVARIANTS
  OpenAfterThreshold
  ProbesDecide
  CompletedMeansSettled
  RaceOutcome
  CyclesAreFound
  LevelsRespectWaits
  BackoffIsIntended
  AttemptsAreReported
  
  StreamsAreFaithful
PROPERTIES
  LostOnlyWhenFull
  LosersAreSilent
  LosersEnd
