\* A recovery overtakes the failure it should close.
SPECIFICATION Spec
CONSTANTS
  w1 = w1
  w2 = w2
  t1 = t1
  t2 = t2
  Workers = {w1, w2}
  Requests = {}
  Tasks = {t1, t2}
  AlertAfterFailures = 1
  MaxDeliver = 1
  MaxManual = 0
  Faults = {}
CHECK_DEADLOCK FALSE
INVARIANT RecoveredMonitorIsClear
