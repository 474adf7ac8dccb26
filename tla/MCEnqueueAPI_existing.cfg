SPECIFICATION Spec
CONSTANTS
  Requests = {r1, r2}
  k1 = k1
  Keys = {k1}
  Inputs <- OneKeyInputs
  Queues <- QueueNames
  DefaultQueue = "default"
  DefaultMaxRetry = 10
  IdempotencyTTL = 1
  MaxLapses = 1
  Unset = Unset
  NoID = NoID
  Absent = Absent
  Unknown = Unknown
CHECK_DEADLOCK FALSE
INVARIANTS ExistingMeansSubmitted
