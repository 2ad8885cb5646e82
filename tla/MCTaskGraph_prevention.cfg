SPECIFICATION Spec
CONSTANTS
  t1 = t1
  t2 = t2
  t3 = t3
  Task <- Tasks
  Deps <- ChainDeps
  Retryable <- AllRetryable
  MaxRetries = 1
PROPERTY PreventionIsTerminal
CHECK_DEADLOCK FALSE
