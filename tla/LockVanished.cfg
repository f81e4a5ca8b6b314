SPECIFICATION Spec
CONSTANTS
  Procs = {p1, p2, p3}
  NoProc = NoProc
  NoDir = NoDir
  MaxTries = 3
  PromptSteps = TRUE
INVARIANT MutualExclusion
CHECK_DEADLOCK FALSE
