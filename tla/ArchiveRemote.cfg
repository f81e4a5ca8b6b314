SPECIFICATION MCSpec
CONSTANTS
  Epochs <- MCEpochs
  Bodies <- MCBodies
  NoBody = ""
  Calls = {r1, r2}
  Offered <- OfferedAll
  Controllers = {c1, c2}
  ConditionalWrites = TRUE
  AtomicPuts = TRUE
  MaxAttempts = 2
  MaxDuplicateReads = 1
  NoChunk = NoChunk
  NoController = NoController
  MaxUploads = 4
  MaxDisturbances = 2
SYMMETRY MCSymmetry
INVARIANTS
  TypeOK
  CommittedIsReadable
  AckedStaysReadable
  AnswersAreSound
PROPERTIES
  ManifestNeverRollsBack
  ImplementsEpochLog
CHECK_DEADLOCK FALSE
