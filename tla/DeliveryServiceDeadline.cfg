SPECIFICATION Spec
CONSTANTS
  Owner = {o1, o2}
  Run = {r1}
  Key = {k1, k2}
  Thread = {t1}
  Query = {q1}
  Cap = 2
  MaxProgress = 1
  Call = {c1}
  Amount = {1}
  Limit = 1
  MaxWorkers = 2
  Fault = {}
  None = None
CHECK_DEADLOCK FALSE
INVARIANTS
  DeadlineFailuresAreTimeouts
