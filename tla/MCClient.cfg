SPECIFICATION MCSpec
CONSTANTS
  Run = {a, b}
  Follower = {f1, f2}
  Flow = {w1, w2}
  MaxProgress = 0
  Page = 1
  MaxBreaks = 1
  Moves = {"open", "refresh", "suspend", "settings", "kill"}
  MaxMoves = 2
  LongRun = {c, d}
  LongFollower = {g1, g2}
  LongFlow = {x1}
  Query = {p, q}
  Refused = {q}
  Memory = {m1, m2}
  Lone = {1}
  AnyCall = {c1, c2}
  LongProgress = 2
  LongPage = 2
  SubmitKeys = 3
  SubmitLost = 3
  DecideKeys = 2
  DecideLost = 2
  SharedKeys = 2
  SharedLost = 1
  FewMoves = 1
  None = None
SYMMETRY Interchangeable
CHECK_DEADLOCK FALSE
INVARIANTS
  RunsAreTrue
  LiveRunIsFollowed
  SubmissionsAreKept
  VerdictsAreTrue
PROPERTIES
  NothingGoesBack
