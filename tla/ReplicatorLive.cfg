SPECIFICATION MCFairSpec
CONSTANTS
  Calls = {r1, r2}
  Inodes = {i1}
  Generations <- MCGenerations
  MaxLines = 3
  Oversized <- MCOversized
  MaxEpochs = 6
  ChunkLines = 1
  MaxChunksPerSync = 2
  NoState = NoState
  NoChunk = NoChunk
  NoCall = NoCall
  MaxFaults = 2
PROPERTIES
  FileIsReplicated
CHECK_DEADLOCK FALSE
