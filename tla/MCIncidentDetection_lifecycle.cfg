\* A state change races a recovery.
SPECIFICATION Spec
CONSTANTS
  w1 = w1
  r1 = r1
  t1 = t1
  t2 = t2
  Workers = {w1}
  Requests = {r1}
  Tasks = {t1, t2}
  AlertAfterFailures = 1
  MaxDeliver = 1
  MaxManual = 0
  Faults = {}
CHECK_DEADLOCK FALSE
PROPERTY LifecycleRespected
