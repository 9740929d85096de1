SPECIFICATION Spec
CONSTANTS
  ReportersCount = 2
  Block = {1, 2, 3, 4}
  Length <- BlockLength
  TotalRanges = 4
INVARIANTS
  BytesConserved
  ExactlyData
PROPERTIES
  CallbackMonotone
  TrackerStops
  DetectionEnds
CHECK_DEADLOCK FALSE
