SPECIFICATION FairSpec
CONSTANTS
  Tasks = {t1, t2, t3}
  Unset = Unset
  Malformed = Malformed
  DefaultWeight <- Weights
  ClientQueueDefault = "batch"
  CPUs = 1
  Envs <- Environments
CHECK_DEADLOCK FALSE
INVARIANTS TypeOK SlotsServe
PROPERTIES NoStarvation
