SPECIFICATION Spec
CONSTANTS
  Job = {j1, j2}
  Note = {n1}
  Fault = {"death", "spawn"}
  MaxWorkers = 3
  None = None
CHECK_DEADLOCK FALSE
PROPERTY
  ClosingEnds
