SPECIFICATION ServicesSpec
CONSTANTS
  Running = {"billing"}
  u1 = u1
  u2 = u2
  h1 = h1
  c1 = c1
  c2 = c2
  s1 = s1
  k1 = k1
  p1 = p1
  e1 = e1
  e2 = e2
  NoOne = NoOne
  Users = {u1, u2}
  Hosts = {h1}
  Controls <- MCControls
  Jobs <- MCJobs
  MaxAttempts = 1
  ListLimit = 1
  Schedulers = {sch1, sch2}
  Apis = {api1}
  DomainRequests = {del1}
  MaxFailures = 1
  Customers = {u1, u2}
  FounderCap = 1
  MaxWebhooks = 3
  MaxBillFailures = 1
  NoHook = NoHook
  Calls = {c1, c2}
  Asks <- MCAsks
  Sent <- MCSent
  Sessions = {s1}
  Keys = {k1}
  Scopes <- MCScopes
  Nobody = Nobody
  Pages = {p1}
  Newsletter = Newsletter
  Signups <- MCSignups
  MaxRows = 1
  Notifications = {upd1, upd2}
  MaxMailFailures = 1
  Exports <- MCExports
  Creators = {req1, req2, req3}
  MonitorLimit <- MCLimit
  MaxImported = 2
  Shown = {mon1, mon2}
  Groups = {grp1, grp2}
  Theirs = {grp2}
  Visits = {vis1}
  NoGroup = NoGroup
  MaxPageFailures = 1
  MaxChanges = 2
  Processes = {api1, api2, sch1}
  Writers = {api1, api2}
  Dispatchers = {sch1}
  Configs = {mon1, chan1}
  MonitorRows = {mon1}
  Versions = {1, 2}
CHECK_DEADLOCK FALSE
INVARIANT
  SeatsWithinCap
