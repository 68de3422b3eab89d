SPECIFICATION MCSpec
CONSTANTS
  Owner = {o1, o2}
  Run = {r1}
  Key = {k1, k2}
  Thread = {t1}
  Query = {q1}
  Cap = 2
  MaxProgress = 2
  Call = {c1}
  Amount = {1}
  Limit = 1
  MaxWorkers = 2
  Fault = {"death", "agent", "crash"}
  PlainJob = {j1, j2}
  PlainNote = {n1}
  AppRun = {a}
  Follower = {f1, f2}
  Flow = {w1}
  Question = {p, q}
  Refused = {q}
  Memory = {m1, m2}
  None = None
CHECK_DEADLOCK FALSE
PROPERTIES
  AcceptedRunsEnd
  ExecutorServesAndCloses
  WhatIsAskedIsSettled
