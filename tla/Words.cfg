SPECIFICATION MCSpec
CONSTANTS
  Agents = {a1, a2}
  Recorders = {r1, r2}
  NoAgent = NoAgent
  NoRecorder = NoRecorder
  Panes = {p1}
  Targets = {t1, t2}
  NoPane = NoPane
  Machines = {m1, m2}
  NoMachine = NoMachine
  Windows = {w1, w2}
  NoWindow = NoWindow
  Cards = {1, 2, 3}
  NoCard = 0
  MaxOpens = 2
SYMMETRY MCSymmetry
INVARIANTS
  TypesOK
  WordsReachTheirPane
CHECK_DEADLOCK FALSE
