\* A failed publish is never repeated.
SPECIFICATION Spec
CONSTANTS
  w1 = w1
  t1 = t1
  Workers = {w1}
  Requests = {}
  Tasks = {t1}
  AlertAfterFailures = 1
  MaxDeliver = 3
  MaxManual = 0
  Faults = {"publish"}
CHECK_DEADLOCK FALSE
PROPERTY SilenceMeansAnnounced
