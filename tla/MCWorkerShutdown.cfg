SPECIFICATION FairSpec
CONSTANTS
  Slots = {s1, s2}
  Tasks = {t1, t2, t3}
  NoTask = NoTask
  MaxSignals = 2
  MaxJobs = 2
CHECK_DEADLOCK FALSE
INVARIANTS TypeOK CloserDrains SchedulerQuiet StopHeard
PROPERTIES Stops
