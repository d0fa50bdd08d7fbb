\* Two instances; lost publishes, slow handlers, crashes and restarts.
SPECIFICATION FairSpec
CONSTANTS
  s1 = s1
  s2 = s2
  r1 = r1
  c1 = c1
  Instances = {s1, s2}
  Requests = {r1}
  Configs = {c1}
  MaxDeliver = 2
  MaxOps = 2
  Faults = {"publish", "slow", "crash", "restart"}
INVARIANT TypeOK
PROPERTY Quiesces
CHECK_DEADLOCK FALSE
