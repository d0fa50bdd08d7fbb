\* Two instances whose rounds may outlive the lease, everything may fail.
SPECIFICATION FairSpec
CONSTANTS
  s1 = s1
  s2 = s2
  m1 = m1
  Instances = {s1, s2}
  Monitors = {m1}
  Lease = 3
  Interval = 2
  MaxAge = 3
  Faults = {"publish", "crash", "stop", "redis"}
INVARIANTS TypeOK OneDispatcher
PROPERTY KeepsDispatching
