SPECIFICATION MCSpec
CONSTANTS
  Skill <- Contracts
  PerRun = TRUE
  MaxActions = 3
  NoLimit = NoLimit
  MaxRuns = 1
  MaxVersion = 1
  MaxAborts = 0
  Content = {ok, weak, bad}
  DevPass = {ok, bad}
  Regressing = {bad}
  Client = {a1, a2}
  Fact = {f1, f2}
  None = None
CHECK_DEADLOCK FALSE
PROPERTIES
  RunsAndCallsEnd
  LateWorkIsCaughtUp
