SPECIFICATION LiveSpec
CONSTANTS
  Epochs <- MCEpochs
  Bodies <- MCBodies
  NoBody = ""
  Calls = {1, 2}
  Offered <- OfferedAll
  Controllers = {"c"}
  ConditionalWrites = FALSE
  AtomicPuts = FALSE
  MaxAttempts = 2
  MaxDuplicateReads = 1
  HostSockets = {h1, h2}
  ViewerSockets = {w1}
  Viewers = {v1}
  AllowControl = TRUE
  Nobody = Nobody
  NoSocket = NoSocket
  MaxBacklog = 1
  MaxFaults = 1
  Sources = {s1, s2, s3}
  Observed = {s1}
  Interval = 2
  MaxBackfill = 1
  MaxUpload = 1
  NoSource = NoSource
  NoChunk = NoChunk
  NoController = NoController
  MaxUploads = 4
  MaxDisturbances = 2
INVARIANTS
  DamageIsNoticed
PROPERTIES
  StopRevokes
  EverySourceIsSynced
  EveryCallSettles
CHECK_DEADLOCK FALSE
