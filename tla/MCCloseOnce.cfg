SPECIFICATION BalancerSpec
CONSTANTS
  WorkerCount = 2
  QueueSize = 1
  MaxRetryCount = 0
  NumRequests = 3
  RetryAnswers <- AlwaysRetry
INVARIANTS
  ClosesEachQueueOnce
CHECK_DEADLOCK FALSE
