SPECIFICATION FairSpec
CONSTANTS
  Callers = {c1, c2}
  Keys = {k1}
  TaskIDs = {blank, t1}
  TTLs = {0, 1}
  DefaultTTL = 1
  Absent = Absent
  Unknown = Unknown
INVARIANTS TypeOK OneWinner KeysCarryTTL
PROPERTIES NeverOverwritten AtomicDecision CallsAnswered KeysLapse
