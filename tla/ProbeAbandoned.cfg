\* A step may fail between AllowRequest and the action.
CONSTANTS
  c1 = c1
  c2 = c2
  c3 = c3
  c4 = c4
  Callers = {c1, c2, c3}
  FailureThreshold = 2
  HalfOpenMax = 1
  MayAbandon = {c1}
SPECIFICATION BusyBreaker
PROPERTIES
  HalfOpenEnds
