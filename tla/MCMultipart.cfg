SPECIFICATION Spec
CONSTANTS
  Sizes <- MCSizes
  BlockSizes <- MCBlockSizes
  MaxPutSizeBytes = 7
  MaxPartCount = 4
  MaxPartSizeBytes = 8
INVARIANTS
  AllOrNothing
  NoUploadLeft
  PartsWithinLimits
PROPERTIES
  FinishedStays
CHECK_DEADLOCK FALSE
