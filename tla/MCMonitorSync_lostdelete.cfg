\* The delete event is not published.
SPECIFICATION FairSpec
CONSTANTS
  s1 = s1
  r1 = r1
  c1 = c1
  c2 = c2
  Instances = {s1}
  Requests = {r1}
  Configs = {c1, c2}
  MaxDeliver = 2
  MaxOps = 2
  Faults = {"publish"}
PROPERTY DeletedUnscheduled
CHECK_DEADLOCK FALSE
