SPECIFICATION MCSpec
CONSTANTS
  Machines = {m1, m2}
  NoMachine = NoMachine
  Windows = {w1, w2}
  NoWindow = NoWindow
SYMMETRY MCSymmetry
INVARIANTS
  TypesOK
  ViewsAreTrue
  TranscriptsAreTheirOwn
PROPERTIES
  CardsAreHeld
CHECK_DEADLOCK FALSE
