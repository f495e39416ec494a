CONSTANTS
  t1 = t1
  t2 = t2
  Tasks = {t1, t2}
  None = None
  MaxCalls = 2
SPECIFICATION Spec
INVARIANTS
  RunsOnceWhereAsked
  ReturnedMeansBegun
PROPERTY CallsComplete
CHECK_DEADLOCK FALSE
