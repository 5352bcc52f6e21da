\* Two slots for a parent and its child, a job that may panic and one that may
\* be given up, and two shutdowns; two loads
\* and a stop of a plugin, two processes; three calls to it.
CONSTANTS
  j1 = j1
  j2 = j2
  j3 = j3
  j4 = j4
  None = None
  Jobs = {j1, j2, j3, j4}
  ConfiguredSize = 2
  Child <- OneParent
  Cancellable = {j4}
  MayPanic = {j2}
  Closers = {k1, k2}
  Loaders = {l1, l2}
  Stoppers = {s1}
  MaxProcs = 2
  Calls = {q1, q2, q3}
SPECIFICATION BackgroundSpec
INVARIANTS
  BoundedConcurrency
  ShutdownDrains
  OnlyOverlapOrphans
  AnswersAreNotMixed
PROPERTIES
  CallsReturn
  StoppedStaysInactive
  StopReturnsAndLoopEnds
