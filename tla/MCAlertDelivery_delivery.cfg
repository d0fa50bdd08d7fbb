\* Two notifiers, one alert and two channels, one without a factory, while
\* everything may fail and a process may crash.
SPECIFICATION FairSpec
CONSTANTS
  n1 = n1
  n2 = n2
  a1 = a1
  c1 = c1
  c2 = c2
  Notifiers = {n1, n2}
  Alerts = {a1}
  Channels = {c1, c2}
  Unregistered = {c2}
  MaxDeliver = 2
  Limit = 1
  MaxTries = 2
  MaxFailures = 2
  MaxWrites = 2
  MaxEdits = 1
  MaxCrashes = 1
  Faults = {"list", "dlq", "slow"}
CHECK_DEADLOCK FALSE
INVARIANTS TypeOK AckAccountsForAll ResendOnlyAfterTimeout GivenUpReachedNobody
PROPERTY EveryAlertSettles
