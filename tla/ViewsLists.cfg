SPECIFICATION MCSpec
CONSTANTS
  Machines = {m1, m2}
  NoMachine = NoMachine
  Windows = {w1, w2}
  NoWindow = NoWindow
INVARIANT FailuresAreRetried
CHECK_DEADLOCK FALSE
