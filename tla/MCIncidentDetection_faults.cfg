\* One task redelivered to two workers while everything may fail and rows are pruned.
SPECIFICATION FairSpec
CONSTANTS
  w1 = w1
  w2 = w2
  t1 = t1
  Workers = {w1, w2}
  Requests = {}
  Tasks = {t1}
  AlertAfterFailures = 1
  MaxDeliver = 3
  MaxManual = 0
  Faults = {"db", "publish", "crash", "retention"}
CHECK_DEADLOCK FALSE
INVARIANTS TypeOK OneOpenIncident DownAnnouncedOnce RecoveryAnnouncedOnlyResolved UptimeCountsStoredChecks AutoIncidentAnnounced
PROPERTY EveryTaskSettles
