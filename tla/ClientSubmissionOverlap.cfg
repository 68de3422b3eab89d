SPECIFICATION Spec
CONSTANTS
  Query = {p}
  Refused = {}
  Call = {c1, c2}
  MaxKeys = 2
  MaxLost = 1
  Moves = {"disturb"}
  MaxMoves = 1
  None = None
CHECK_DEADLOCK FALSE
INVARIANTS
  PendingIsNotDropped
