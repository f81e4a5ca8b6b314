SPECIFICATION MCSpec
CONSTANTS
  HostSockets = {h1, h2}
  ViewerSockets = {w1, w2}
  Viewers = {v1, v2}
  AllowControl = TRUE
  Nobody = Nobody
  NoSocket = NoSocket
  MaxBacklog = 1
  MaxFaults = 1
INVARIANTS
  TypeOK
  EndedStaysEnded
  ControlIsSound
  DeadlinesAreWatched
  AttachedWhileWatched
SYMMETRY MCSymmetry
CHECK_DEADLOCK FALSE
