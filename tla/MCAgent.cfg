SPECIFICATION MCSpec
CONSTANTS
  Skill <- Contracts
  PerRun = TRUE
  MaxActions = 3
  NoLimit = NoLimit
  MaxRuns = 2
  MaxVersion = 2
  MaxAborts = 1
  Batch = {1, 2}
  Rounds = 2
  MaxBatches = 2
  MaxKills = 1
  MaxRevisions = 1
  Content = {ok, weak, bad}
  DevPass = {ok, bad}
  Regressing = {bad}
  Client = {a1, a2, a3}
  MaxCalls = 2
  Key = {1, 2}
  Cap = 1
  None = None
SYMMETRY Interchangeable
CHECK_DEADLOCK FALSE
INVARIANTS
  GraphIsBounded
  ActiveSkillIsSound
  ToolsAnswer
  StreamsAreTrue
PROPERTIES
  ActivationIsAnEvent
