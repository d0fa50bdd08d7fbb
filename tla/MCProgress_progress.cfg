\* One instance, one request at a time, restarts with nothing in flight; a
\* custom domain alone, and one beside a domain that never validates; one customer.
SPECIFICATION ProgressSpec
CONSTANTS
  u1 = u1
  u2 = u2
  h1 = h1
  h2 = h2
  s1 = s1
  Instances = {s1}
  Requests = {r1}
  Configs = {c1, c2}
  MaxDeliver = 2
  MaxOps = 4
  Faults = {"restart"}
  NoOne = NoOne
  Users = {u1, u2}
  Hosts = {h1, h2}
  Controls <- MCControls
  Jobs <- MCJobs
  MaxAttempts = 1
  ListLimit = 1
  Schedulers = {s1, s2}
  Apis = {a1}
  DomainRequests = {d1}
  MaxFailures = 1
  Customers = {u1}
  FounderCap = 1
  MaxWebhooks = 3
  MaxBillFailures = 1
  NoHook = NoHook
INVARIANT Agreement
PROPERTIES
  DeletedUnscheduled
  ServedBecomesActive
  PaidBecomesPro
CHECK_DEADLOCK FALSE
