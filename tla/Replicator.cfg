SPECIFICATION MCSpec
CONSTANTS
  Calls = {r1, r2}
  Inodes = {i1, i2}
  Generations <- MCGenerations
  MaxLines = 3
  Oversized <- MCOversized
  MaxEpochs = 6
  ChunkLines = 2
  MaxChunksPerSync = 2
  NoState = NoState
  NoChunk = NoChunk
  NoCall = NoCall
  MaxFaults = 2
SYMMETRY MCSymmetry
INVARIANTS
  TypeOK
  UploadsAreSound
  NothingIsSkipped
PROPERTIES
  DurableStateMovesForward
CHECK_DEADLOCK FALSE
