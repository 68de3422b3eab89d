SPECIFICATION Spec
CONSTANTS
  Fact = {f1, f2, f3}
  Predicate = {p1}
  Horizon = 2
  Candidate <- MCCandidate
  Key = {k1, k2}
  Recall = {w1}
  Limit = 1
  None = None
SYMMETRY MCSymmetry
INVARIANTS TypeOK OneFactPerInstant OneVerdict Warranted IndexIsSound
PROPERTIES VersionsTellChanges ImplementsTimeline
CHECK_DEADLOCK FALSE
