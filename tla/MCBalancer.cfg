SPECIFICATION BalancerSpec
CONSTANTS
  WorkerCount = 2
  QueueSize = 2
  MaxRetryCount = 1
  NumRequests = 4
  RetryAnswers <- AnyRetry
INVARIANTS
  LoadExact
  FinishedMeansResolved
  LeastLoaded
PROPERTIES
  ImplementsTaskPool
CHECK_DEADLOCK FALSE
