SPECIFICATION ProducerFairSpec
CONSTANTS
  Requests = {r1, r2}
  Here = {r1}
  k1 = k1
  Keys = {k1}
  Inputs <- MixedInputs
  Queues <- QueueNames
  DefaultQueue = "default"
  DefaultMaxRetry = 10
  IdempotencyTTL = 1
  MaxLapses = 1
  Unset = Unset
  NoID = NoID
  Absent = Absent
  Unknown = Unknown
CHECK_DEADLOCK FALSE
CONSTRAINT ExpiryWhileServing
INVARIANTS TypeOK ProducerTypeOK OneTaskPerLife KeyGuardsTask ReplyHonest GracefulStop
PROPERTIES KeepsPromise NoWayBack Answered ProducerStops
