\* Two workers against an API request that opens or moves incidents, of a monitor
\* that may be deleted.
SPECIFICATION Spec
CONSTANTS
  w1 = w1
  w2 = w2
  r1 = r1
  t1 = t1
  t2 = t2
  Workers = {w1, w2}
  Requests = {r1}
  Tasks = {t1, t2}
  AlertAfterFailures = 1
  MaxDeliver = 1
  MaxManual = 1
  Faults = {"delete"}
SYMMETRY Symmetry
CHECK_DEADLOCK FALSE
INVARIANT ResolvedHasTime
PROPERTIES KeepsContract FlapProtection
