\* A condition whose branches hold a decision each.
CONSTANTS
  Modes = {"condition"}
  Width = 2
  Length = 1
  Body <- MCDecisions
  MayFail = {}
  IgnoreErrors = {}
  MaxIters = {0}
  SignalCap = 1
  MaxSignals = 0
SPECIFICATION Spec
INVARIANTS
  DecisionHoldsStep
