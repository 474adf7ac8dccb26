SPECIFICATION Spec
CONSTANTS
  Calls = {c1, c2, c3}
  Objects = {o1}
  Nil = Nil
  Payloads = {p1}
  Queues = {"default"}
  DefaultQueue = "default"
  Unset = Unset
  Durations <- DurationsAsked
  Given <- OptionsGiven
  MaxRetry = 0
  MaxTime = 2
  NoTask = NoTask
SYMMETRY CallSymmetry
CHECK_DEADLOCK FALSE
INVARIANTS TypeOK NoTwinBeforeEnd 
