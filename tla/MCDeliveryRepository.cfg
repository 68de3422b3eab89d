SPECIFICATION Spec
CONSTANTS
  Owner = {o1, o2}
  Run = {r1, r2, r3}
  Key = {k1, k2, k3, k4}
  Thread = {t1, t2}
  Query = {q1, q2}
  Score = {s1}
  LegacyThread = {t1}
  LegacyRun = {r1}
  Cap = 1
  Months = 2
  MaxProgress = 1
  None = None
SYMMETRY Interchangeable
CHECK_DEADLOCK FALSE
INVARIANTS
  TypeOK
  OneLiveRun
  StreamEndsOnce
  DeadlineFence
  ForeignWritesOnlyFail
  ChargedOncePerRun
  KeyNamesOneResource
PROPERTIES
  EndedRunsAreFrozen
  ImplementsLifecycle
