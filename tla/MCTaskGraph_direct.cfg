SPECIFICATION OpenSpec
CONSTANTS
  t1 = t1
  t2 = t2
  t3 = t3
  Task <- Tasks
  Deps <- ForkDeps
  Retryable <- AllRetryable
  MaxRetries = 1
INVARIANT NoTornCall
CHECK_DEADLOCK FALSE
