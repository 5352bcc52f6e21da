\* Two parents hold both slots while they wait for their children.
CONSTANTS
  j1 = j1
  j2 = j2
  j3 = j3
  j4 = j4
  None = None
  Jobs = {j1, j2, j3, j4}
  ConfiguredSize = 2
  Child <- TwoParents
  Cancellable = {}
  MayPanic = {}
  Closers = {k1}
SPECIFICATION FairSpec
PROPERTIES
  SubmitReturns
