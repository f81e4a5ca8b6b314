SPECIFICATION Spec
CONSTANTS
  Procs = {p1, p2, p3, p4}
  NoProc = NoProc
  NoDir = NoDir
  MaxTries = 3
  PromptSteps = TRUE
SYMMETRY MCSymmetry
INVARIANTS
  TypeOK
  HolderIsOnRecord
  AloneAcquiresUnlessGuardAbandoned
CHECK_DEADLOCK FALSE
