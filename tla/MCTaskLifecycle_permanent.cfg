SPECIFICATION Spec
CONSTANTS
  Workers = {w1, w2}
  t1 = t1
  t2 = t2
  Tasks = {t1, t2}
  Kind <- OneFails
  QueueOf <- TwoQueues
  MaxRetry = 1
  MaxFaults = 2
  MaxReplays = 1
  NoTask = NoTask
CHECK_DEADLOCK FALSE
INVARIANTS PermanentNotRetried
