SPECIFICATION MCSpec
CONSTANTS
  Learner = {l1, l2}
  Predicate = {p1, p2}
  Cell = {c1, c2}
  Thread = {t1, t2}
  Reader = {r1}
  None = None
  Failed = Failed
SYMMETRY Interchangeable
CHECK_DEADLOCK FALSE
INVARIANTS
  CallsAreTold
  EvidenceAgrees
  SkillsPassTheGates
  LearningIsWhole
