SPECIFICATION MCSpec
CONSTANTS
  Owner = {o1}
  Run = {r1, r2}
  Key = {k1, k2, k3}
  Thread = {t1}
  Query = {q1}
  Cap = 2
  MaxProgress = 2
  Call = {c1}
  Amount = {1}
  Limit = 1
  MaxWorkers = 2
  Fault = {"death", "agent", "thread"}
  PlainJob = {j1, j2}
  PlainNote = {n1}
  LedgerRun = {r3, r4}
  LedgerCall = {c2, c3}
  LaterOwner = {o2, o3}
  LaterRun = {r5}
  LaterKey = {k4, k5}
  None = None
SYMMETRY Interchangeable
CHECK_DEADLOCK FALSE
INVARIANTS
  TypesOK
  SlotIsServed
  RunIsHandled
  CallsAreAccounted
PROPERTIES
  CostsAreSettledOnce
