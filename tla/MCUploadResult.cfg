SPECIFICATION UploadSpec
CONSTANTS
  WorkerCount = 2
  QueueSize = 1
  MaxRetryCount = 0
  NumRequests = 2
  RetryAnswers <- AlwaysRetry
  ReportersCount = 2
  Block = {1, 2}
  Length <- BlockLength
INVARIANTS
  NilMeansAllWritten
CHECK_DEADLOCK FALSE
