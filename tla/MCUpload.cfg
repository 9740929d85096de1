SPECIFICATION UploadSpec
CONSTANTS
  WorkerCount = 2
  QueueSize = 1
  MaxRetryCount = 0
  NumRequests = 3
  RetryAnswers <- AlwaysRetry
  ReportersCount = 2
  Block = {1, 2, 3}
  Length <- BlockLength
INVARIANTS
  NoReportAfterClose
  WrittenBytesCounted
  NilMissesAtMostOne
PROPERTIES
  UploadReturns
CHECK_DEADLOCK FALSE
