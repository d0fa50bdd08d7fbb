# PingCast in TLA+

TLA+ modules for PingCast (Go, `src/`), the TLC runs that check them on small
instances and the TLAPS proofs of what matters most. Paths below are relative to
`src/internal/` unless they begin with `src/`.

## 1. The system

Four Go processes share PostgreSQL, NATS JetStream and Redis:

* **api** – accounts, monitors, incidents, channels, status pages, billing webhooks,
  subscriptions, imports; writes rows, publishes `monitors.changed`, mails subscribers.
* **scheduler** – several instances, one leader; publishes a task to `CHECKS` for
  every monitor that is due. Also runs retention, SSL scan, custom-domain
  validation and certificate renewal under Redis locks.
* **worker** – pulls tasks from `CHECKS`, probes the target, stores the result,
  opens and resolves incidents, publishes to `ALERTS`.
* **notifier** – pulls `ALERTS` and sends to the channels bound to the monitor.

### Inventory

| component | state | operations | meets others through |
|---|---|---|---|
| check worker (`app/monitoring.go` 526-662, `bootstrap/worker.go`, `adapter/nats/check_subscriber.go`) | `check_results`, hourly uptime, `monitors.current_status`, `incidents`, deliveries of a task | ProcessCheckResult, handleDown, handleRecovery, ack / nak | `CHECKS` (in), `ALERTS` (out), the tables |
| incident API (`app/monitoring.go` 135-272, `domain/incident.go`) | `incidents`, `incident_updates` | ChangeIncidentState, CreateManualIncident | the incidents table, subscriptions |
| leader scheduler (`adapter/checker/leader_scheduler.go`) | Redis lease, `isLeader`, map of monitors with `lastTick` | Run, Add, Remove, Stop | Redis, `CHECKS` (out) |
| monitor API and scheduler map (`app/monitoring.go` 300-524, `adapter/nats/subscriber.go`, `bootstrap/scheduler.go` 89-121) | `monitors`, the `MONITORS` queue, the instances' maps | create, update, pause/resume, delete, event handler, start-up load | `MONITORS` |
| notifier (`app/alert.go`, `adapter/nats/dlq_consumer.go`, `adapter/channel/`) | deliveries of an alert, circuit breakers, `failed_alerts` | Handle, writeToDLQ, channel CRUD | `ALERTS`, the senders |
| locked loops (`bootstrap/scheduler.go` 123-315) | four Redis mutexes | retention, SSL scan, validation, renewal | Redis, tables |
| custom domains (`app/custom_domain.go`, `adapter/acme/`) | `custom_domains`, `custom_domain_certs`, the host-name map of each api process | request, delete, validate, provision, renew, lookup | locked loops, ACME |
| billing (`app/billing.go`, `adapter/http/webhook.go`, `app/auth.go`) | `users.plan`, LemonSqueezy ids, `subscription_variant`, advisory lock | upgrade, downgrade, tag | webhooks; the plan is read by every gate |
| accounts and API chain (`app/auth.go`, `adapter/redis/`, `adapter/http/middleware.go`, `setup.go`) | sessions, API keys, the lists of the selectors | login, logout, validate, limit, Pro gate, scopes | every request |
| subscriptions (`app/subscription.go`, `app/blog_subscription.go`) | subscribers and their tokens | subscribe, confirm, unsubscribe, notify | incident API, mail |
| importer (`app/atlassian_importer.go`) | monitors and incidents of an export | Import | the tables |
| status page and badge (`app/monitoring.go` 745-870, `adapter/http/badge.go`) | none of its own | GetStatusPage, badge | monitors, maintenance windows, groups, plan |
| encryption of configs (`crypto/`, `bootstrap/cipher.go`, the repositories) | ciphertexts with key versions, one cipher per process | create, load, save, delete, rotate | every process that reads a config |
| feeds, exports, probes, senders, configuration, observability | – | – | – |

### What is hard here

Nothing in the pipeline holds a lock or a transaction across statements. A check
is six to nine statements and a publish; two workers, or a worker and an API
request, run them interleaved. JetStream redelivers a task that is answered late
(a worker fetches ten at a time under one 60 s AckWait), so a task may run twice
at once. A worker can die between two statements. A publish can fail after the
row is committed. The leader lease can end under a round. Events about one
monitor can be lost, repeated or reordered, and only one scheduler instance gets
each. An alert is sent to several channels, some of which fail, by a handler that may
take thirty seconds under an acknowledgement timer of two.

Around the pipeline: a job may outlive its mutex and meet another run of itself; a
validated host name is provisioned from a row read minutes ago; webhooks of one
customer are handled concurrently, in any order, more than once; founder seats and
monitor limits are counted in one statement and used in another; authentication, rate
limit, Pro gate and scopes are four lists kept by hand beside the route table, and
compare paths that the router matches in any case; a page is put together from a dozen reads; processes with different keys write the same rows
while an environment is rolled out. `PROJECT.json` lists these hazards at their lines,
with the properties that cover them.

### What makes each component correct

* incidents: one open incident per monitor; announced once, by a worker; closed by
  the recovery (which two racing checks may miss), announced only then; no new one in the cooldown; states
  move only as `CanTransitionTo` allows; every task settles.
* scheduler: one instance dispatches at a time while rounds fit into the lease; an
  active monitor is dispatched for ever, through failover.
* scheduler map: when nothing is under way it says what the table says; a deleted
  monitor is dropped; events do not circulate for ever.
* notifier: an acknowledged alert was heard on or recorded for every channel it was
  meant for; a retry repeats nothing that succeeded unless a timer ran out; an alert
  given up reached nobody; every alert is acknowledged or given up.
* custom domains: an active row has a certificate; no host is routed to somebody who
  does not control it; rows follow their life cycle; a host that serves its token
  becomes active.
* billing: founder seats stay within the cap; the plan follows the subscription; who
  pays becomes Pro.
* API chain: a handler gets what it takes for granted, however the path is spelled; a
  spent credential stays spent.
* subscriptions: a mail needs consent; one failing mail does not end a batch.
* importer: all of an export or nothing of it. Monitor limit: exceeded only by imports
  and by requests that raced.
* status page: "all up" was true of each monitor; the groups of its monitors are on it.
* encryption: every process with keys reads every ciphertext during a rotation.

## 2. Modules

| module | what it is |
|---|---|
| `IncidentDetection` | worker, `CHECKS` consumer and incident API, for one monitor |
| `IncidentContract` | what that promises: outages open and close, one at a time, each told at most once down and told up only when closed |
| `IncidentDetectionProofs` | inductive invariant and theorems |
| `IncidentContractProofs` | the refinement `IncidentDetection` ⇒ `IncidentContract` |
| `LeaderScheduler`, `LeaderSchedulerProofs` | lease, rounds of any length, failover; mutual exclusion |
| `MonitorSync`, `MonitorSyncProofs` | monitor rows, their events and the instances' maps |
| `AlertDelivery`, `AlertDeliveryProofs` | notifiers, `ALERTS` consumer, channels, breakers and dead letters; nothing is acknowledged unaccounted for |
| `LockedLoop` | a periodic job under a Redis mutex (`runLockedLoop`) |
| `CustomDomains` | extends `LockedLoop` with the validation and renewal jobs, the API and the host-name maps |
| `Billing` | webhooks, plan and founder seats |
| `Access` | the route table and the chain in front of each handler |
| `Subscriptions` | double opt-in lists and incident mails |
| `AtlassianImport` | the import, one turn of its loop at a time, in one transaction |
| `MonitorQuota` | the monitor limit under concurrent creates, imports and plan changes |
| `StatusPage` | a page read by read, and the badge |
| `Secrets` | ciphers, key rotation, the rows they write |
| `AccountProofs` | theorems of `Billing`, `MonitorQuota`, `Secrets`, `Access` and `AtlassianImport` |
| `PageProofs` | theorems of `CustomDomains`, `StatusPage` and `Subscriptions` |
| `MCServices` | the eight services above, one per behaviour, for safety |
| `ServicesProofs` | the types of that composition, from the theorems of its parts |
| `MCProgress` | monitor events, custom domains and webhooks, one per behaviour, for liveness |
| `MC…` and `MC…_<run>.cfg` | instances for TLC |

### IncidentDetection

`pc[w]` is the statement worker `w` executes next, `job[w]` its local variables;
each statement of `ProcessCheckResult`, `handleDown`, `handleRecovery` and
`publishAlert` is an action, in the code's order with its early returns.

* `UpdateMonitorStatus` is two steps (`SnapshotStatus`, `UpdateStatus`): its CTE
  reads the statement's snapshot while the `UPDATE` waits for the row lock.
* `InsertResult` is two statements in one step, since nothing in the module reads
  the hourly aggregate; a crash may still cut it short.
* Maintenance windows begin and end at any time, so `CheckCooldownAndMaintenance`
  may always end the handler.
* A task is `ready`, `out` or `gone`. `AckWaitExpires` makes it ready again while
  its worker goes on. `MaxDeliver` is 3 in the code. The task carries only the
  monitor's id: every delivery probes anew, and the result is any of up and down.
* An API request decides on what it reads (`Begin…`) and writes later in one
  transaction (`Commit…`), as the code does.
* `resolvedAt` is null, recent or past: only "within five minutes" matters.
* `DeleteByPlan` is retention: it deletes the oldest rows of `check_results` and leaves
  the hourly aggregate, which is never pruned. Rows go after 30 or 365 days, so none of a
  check that is still being handled goes.
* Three variables are history, which no guard reads: `pruned`, the rows retention
  deleted; `unsent`, the incidents whose announcement failed or died with its worker;
  `raced`, the workers between cooldown check and insert since whose check something was
  resolved.
* Left out: probe details, wording of causes and titles, ownership checks, metrics.

### LeaderScheduler

Discrete seconds. `ttl`, `age` and `wait` count from the present, so time needs no
bound. A round takes any time, as in the code, which publishes synchronously for every
monitor: `age` is how old it is, counted up to `MaxAge`, at least the lease. `Lock`, `Extend` and `Unlock` are redsync's compare-and-set operations on
one Redis (external). A process that dies leaves its lock value behind (`"dead"`).
`Stop` runs concurrently with `Run`, as in the code. `Add` and `Remove` wait for
the mutex that a round holds. `DispatchAll` is used by tests only and left out.

### MonitorSync

One monitor: `row` in the table, requests that load, write and publish in three
steps, the `MONITORS` stream, `pending` (delivered, not acknowledged) with the
number of `tries`, an `inbox` per instance (the client prefetches), and `view`, the
instance's map entry. Pause and delete events carry no fields, as in
`monitorToEvent`. An update of a row deleted meanwhile writes nothing and is
published all the same. `Configs` stands for everything an update can change
besides `is_paused`. Left out: channel bindings, plan limits (`MonitorQuota`), validation (a request
may be refused for any reason before it writes).

### AlertDelivery

One monitor and its owner's channels. `work[n]` is the `Handle` that notifier `n` is
in: `at` is its step, `stage` the state of each channel's goroutine (they interleave,
at most `Limit` at once), `tried` the attempts of `backoff.Retry`, `writes` those of
`writeToDLQ`. `inbox[n]` are the deliveries the client holds; they are handled one
after another. `heard` counts the `Send`s that returned nil – a receiver may have got
a message whose `Send` failed, which nobody in the program can tell.

* The two lists are separate steps, each reading the channels of its moment, so that
  a change falls between the list for the monitor and the fallback to the user's. Each
  request on channels is one guarded statement, hence one step. Creating a monitor
  binds channels too, before that monitor has an alert.
* A failing attempt may be the last at any time: `chCtx` ends after ten seconds.
* A breaker counts executed requests, so that one `Send` with its tries is one failure.
  `MaxRequests` is 1, but deliveries are handled one at a time per notifier and
  nothing else uses its registry: a half-open breaker is never asked twice.
* `BackOff` replaces `AckWait` in JetStream: the timer of the first delivery is two
  seconds. With `"slow"` in `Faults` it may end under a handler; without it the timer
  ends only for deliveries nobody holds any more (those of a crashed notifier).
* `Nak` delivers again at once. After `MaxDeliver` (10 in the code) deliveries the
  server publishes an advisory, which each running notifier records; the row holds the
  advisory's JSON and no channel, not the event.
* An acknowledgement counts whichever delivery it is for, also after the server gave
  the alert up.
* Left out: malformed messages (acknowledged and dropped), the stream's age limit,
  ownership checks, channel names and configs, `sendOverrides` (tests only).

### LockedLoop and CustomDomains

`LockedLoop` is `runLockedLoop`: a tick takes the Redis mutex or is skipped, the work
runs, the mutex is given back. Its expiry is fixed, so `MutexExpires` may find the run
still going; `lapsed` remembers the jobs to which that happened. A crash leaves the key
behind, a failed `Unlock` too. `CustomDomains` extends it with two jobs.

* `run[j][s]` is where scheduler `s` is in job `j`: the rows it listed, the row it is on
  (`cur`) and the row `Provision` found by host name (`got`). Each statement and each
  call of ACME is an action; between them users delete rows and ask for hosts again.
* The host-name map of each api process is read and stored in two steps
  (`RefreshLists`, `RefreshStores`) after a delete and preloaded at a start. The refresh
  at the end of a validation run replaces the map of the scheduler, which routes
  nothing; the map of an api process therefore learns of a new host only by its own
  next refresh. That step has no effect here and is left out.
* `Controls` says who serves the `.well-known` path of a host. Tokens are unguessable,
  so a probe succeeds only for that user. A certificate is none, fresh or expiring.
* `ListPending` takes the `ListLimit` (100 in the code) oldest rows that are not active, by
  `created`, the order of `created_at`; a row is `Crowded` while as many older ones wait.
* The provisioner is the one of `adapter/acme`. `NoopCertProvisioner` stores nothing: with
  it rows become active without a certificate, so `ActiveHasCert` presumes that it is not
  used. Development uses it, but so does a production scheduler whose ACME set-up fails
  (`bootstrap/scheduler.go:168-183` logs the error and goes on with it).

### Billing

A webhook is numbered as LemonSqueezy first sends it and carries the step its handler
is at. `UpdateUserPlan` and `UpdateLemonSqueezy` are separate statements, tagging is one
transaction under an advisory lock: the count (`CountSeats`) and the write (`Tag`) are
two steps that hold it. `Unanswered` is an error 500, a crash and a lost answer: the
event comes again. Any error of the look-up is answered 200 (`Lookup`), so that the
event is lost; `muddled` remembers such customers and those one of whose events overtook
another. `tagged` are the users tagged since their last upgrade from Free: a downgrade
keeps `subscription_variant`, so who comes back counts as a founder before he is tagged.
At the start some founders may have been paying for a while. Left out: the signature check, variants unknown to the configuration.

### Access

All handlers of the router are records with method, path and whether they ask for the
user; `IsPublic`, `IsGated`, `RequiredScope` and `Bucket` are the path selectors of
`setup.go` and `middleware.go`, evaluated on those paths. A call goes through
authentication (three steps: look-up, user, `Touch`), limiter and gate, and handler,
while sessions end, keys are revoked and the plan changes. The code tells a session from a
key by where it comes from, cookie or bearer header; here they are disjoint sets. Path
parameters are spelled as in the route table, `:id`.

A call has its own `path`, one of the `Spellings` of its handler's: Fiber with its default
configuration (`setup.go:25`) takes a path in any case and with a slash at the end to the
handler, while the selectors compare `c.Path()` as sent. A part in another case is
`OtherCase`, equal to no part a selector names; a slash at the end leaves an empty last
part. For a handler that is then reached without a user, `requireUser` answers 401 (`asks` in
`Handle`): `/API/…` counts as public and ends there. Handlers only change what
this module knows: sessions and keys. The limiter may refuse whenever there is a bucket.

### Subscriptions

Both lists, told apart by name. Subscribing and sending the confirmation are two steps.
A notification is a goroutine that reads the confirmed rows once and sends one mail
after another; its thirty seconds may end at any time. `consented` remembers who confirmed
before or while it ran. Left out: wording, locales, token lookups that find nothing.

### AtlassianImport and MonitorQuota

`ImportComponents` makes the monitors, `ImportIncident` is one turn of the loop over the
incidents; both add to `written`, what the transaction has written so far. `Commit` makes
that `stored`. `Rollback` is possible before every turn and before the commit: any query may fail, and
a turn for which `TurnFails` has no other way to go on. A row remembers which incident of
the file it came from (`of`), so that `ImportMatches` can compare what is stored with
`Attached`, which says what the file asks for without the loop. `MonitorQuota`
keeps a number of monitors; a create loads the plan, counts, inserts and publishes in
four steps. `crowd` remembers the most requests that were between count and insert.

### StatusPage

One action per statement of `GetStatusPage`, for the page of one user. `Theirs` are the
groups of other users: `AssignMonitorGroup` takes any group there is, as the statement
does (it checks the owner of the monitor, the foreign key the group), while `ListSections`
lists the user's own. Rows change only while a page is read, at
most `MaxChanges` times. A page remembers for each monitor whether it was up or in
maintenance at some moment of the request (`fine`) and which groups were deleted or could
not be read (`dropped`). The badge is computed from the same page, the feed shows it.

### Secrets

A column is plain JSON (`"object"`, older than encryption), the same as a JSON string
(`"text"`, what `NoOpCipher` leaves), or `"sealed"` under a key. A process builds its
cipher when it starts, from the environment of that moment. `held` are requests between
reading a row and writing it back. The operator adds a key at any time, makes it
primary once every running process knows it, and retires a key when it is not primary
and no row is sealed with it: that discipline is an assumption about operation, since
the code cannot enforce it. AES-GCM is taken as given.

## 3. Runs

Passing:

| run | instance | shows |
|---|---|---|
| `faults` | 2 workers, 1 task, 3 deliveries, failing statements and publishes, crashes, retention, fair | OneOpenIncident, DownAnnouncedOnce, RecoveryAnnouncedOnlyResolved, UptimeCountsStoredChecks, AutoIncidentAnnounced, EveryTaskSettles, TypeOK |
| `api` | 2 workers, 2 tasks, 1 request, deletion of the monitor | KeepsContract (refinement), ResolvedHasTime, FlapProtection |
| `failover` | 2 instances, 1 monitor, lease 3, rounds of any length, every fault, fair | OneDispatcher, KeepsDispatching, TypeOK |
| `sync_faults` | 2 instances, 2 requests in turn, 2 deliveries, every fault, fair | Quiesces, TypeOK |
| `delivery` | 2 notifiers, 1 alert, 2 channels (one without a factory), 2 deliveries, every fault, 1 crash, 1 edit, fair | AckAccountsForAll, ResendOnlyAfterTimeout, GivenUpReachedNobody, EveryAlertSettles, TypeOK |
| `progress` | one of: 1 scheduler instance, 1 request at a time, 4 requests, idle restarts; 1 domain, 2 schedulers, 1 failure; 2 domains in a list of 1, 1 scheduler, 1 failure; 1 customer, 3 webhooks, 1 failure; fair | Agreement, DeletedUnscheduled, ServedBecomesActive, PaidBecomesPro |
| `services` | one of the eight services per behaviour, at the bounds below | ActiveHasCert, RoutesOnlyOwner, LifecycleUnderLock, OversoldOnlyByReturns, PlanFollowsSubscription, HandlerTrustsChain, SpentStaysSpent, MailNeedsConsent, BatchReachesAll, ImportMatches, OwnedWithinLimit, AllUpWasTrue, SectionsResolve, SeamlessRotation, ServicesTypeOK |

Violated, each against a line of the repository (quoted in `PROJECT.json`):

| run | shows |
|---|---|
| `lifecycle` | a state change decided on a stale read moves a resolved incident back |
| `recovery` | RecoveredMonitorIsClear: the newest check is up, its recovery ran, nothing is under way, and the incident that an older failed check inserted after it is open |
| `lostalert` | SilenceMeansAnnounced: after a failed publish the retried task finds its incident open and is settled in silence, though nobody announced it or will |
| `sync_lostdelete` | a delete event that is not published is never made up for: there is no reload |
| `seats` | SeatsWithinCap: a founder who comes back after his seat was sold again, and whose tagging fails, leaves one founder too many |

What the passing properties leave out, and which assumption of a run is needed:

* `AutoIncidentAnnounced` says that an announcement is lost only with its publish or its
  worker, and then for good: `lostalert` is what a reader of the documents would not expect.
* `FlapProtection` excepts a worker whose cooldown check was overtaken by a resolution
  (check and insert are two statements), and nobody else.
* `OneDispatcher` excepts rounds that outlive their lease of ten seconds, which nothing in
  the code prevents, and instances that are shutting down.
* `Agreement` and `DeletedUnscheduled` fail with a second instance (events go to one of
  them), `Agreement` also with overlapping requests (they publish in another order than they
  write) and with `"slow"` or `"crash"` (a redelivered event is applied after a newer one).
* `ServedBecomesActive` excepts crowded rows: a row behind as many failing older ones as the
  list takes is never tried. With one domain nothing crowds it; with two, and a list of
  one, the row that never validates may.
* `HandlerTrustsChain` asks for the gate in the spelling of the route table, and not for
  the groups; `SectionsResolve` speaks of the owner's groups only. The differences below
  say why.

No channel hears an alert twice
without `"slow"` and crashes, which is what `ResendOnlyAfterTimeout` says of runs in
which no timer ends: a handler slower than two seconds repeats the alert on channels
that heard it. `LifecycleUnderLock` fails without its premise: a run that outlived the
mutex sets a row another run made active back to `validated` or `failed`.
`PlanFollowsSubscription` fails for customers in `muddled`: a repeated "active" handled
after "cancelled" leaves a user Pro, a dropped event leaves a payer on Free.

The violations are defects or differences from a text of the repository. Other
differences met while modelling, which no run shows:

* The Pro gate compares `c.Path()` exactly (`adapter/http/setup.go:138-166`), the router
  of `setup.go:25` takes a path in any case and with a slash at the end: in such a spelling a
  Free user's request reaches a handler for Pro users, although `setup.go:127-128` says
  that the selector "enforces RequirePro on the routes exposed to Pro subscribers only".
* No rule of the gate names a route of the monitor groups, so Free users write them:
  `app/monitoring.go:76` says "Monitor groups (Pro-gated at HTTP layer)",
  `adapter/http/monitor_groups.go:13` "Pro-gating is on writes only".
* A monitor may be put into another user's group: `sqlc/queries/monitor_groups.sql:28-29`
  says "WHERE user_id check prevents cross-tenant assignment", but the check is on the
  monitor's owner. The page then names a group it does not list.
* A hundred failing rows keep newer ones from being validated:
  `sqlc/queries/custom_domains.sql:21-22` says "Returns everything not yet active", the
  statement has LIMIT 100.
* An incident may also stay open after a recovery because `handleRecovery` takes an error
  of `GetOpen` for "no open incident" (`app/monitoring.go:630`), or because a worker died
  after it had changed the status: the change is used up and no later check repeats it.
* The founder tag is decided again at every renewal, and the count includes the user
  himself: with all seats taken, each renewal of a founder turns his tag to retail
  (`billing.go:60-75`).
* The gate's rule for DELETE of custom domains keeps a downgraded user from removing his
  rows, which the comment at `adapter/http/setup.go:163-165` says he can.
* The hourly aggregate keeps counting checks that retention deleted: on Free the uptime of
  ninety days rests on rows of thirty.
* Badge and API disagree about maintenance: the page counts a monitor in maintenance as
  fine (`app/monitoring.go:812-816`), the badge shows it as down.
* Enabling encryption makes the rows `NoOpCipher` wrote unreadable: they are JSON
  strings, and the comment "Not encrypted — return as-is" (`monitor_repo.go:54`) holds
  for objects only. One such monitor keeps a scheduler from starting.
  `NeedsReEncryption` and the documented `reencrypt` command have no caller.
* A resolved incident of an import without `resolved_at` stays open; the monitors of an
  import publish no event, so that no scheduler checks them before its next start.
* `CreateMonitor` returns an error when only the publish failed; the monitor exists.
* An api process does not route a domain that a scheduler activated until it restarts or
  deletes a domain, although the comment at `custom_domain.go:121` says the map is
  reloaded whenever a domain is activated.
* The second use of a confirmation link is an error, where the comment calls it idempotent (`app/subscription.go:73`).
* Each scheduler has its own daily ticker and the mutex is free again after a run, so
  retention and SSL alerts run once per instance and day.
* `writeToDLQ` shares its alert's thirty seconds: after slow sends all three attempts
  may fail, and the channels that failed are in the log only. Advisories are plain NATS
  messages: none is kept while no notifier runs, each running one writes a row. `Nak`
  delivers at once, so ten deliveries may pass before an open breaker's sixty seconds.

### Bounds

A race here needs two actors and, for an incident's whole life, three checks: two
workers with one redelivered task (three probes) or two tasks reach down, recovery, the next
failure and the redelivery of each.
`MaxManual` caps manual incidents, `MaxOps` the API requests on a monitor: create,
change, change back, delete. A lease of 3, ages up to 3 and an interval of 2 let a round end
within its lease, at its end, and long after it. An alert needs two notifiers (one late, one new), two channels
(one that hears it, one that fails) and two deliveries to be sent twice; a breaker of two
failures opens within them. `MaxEdits` caps changes of the channels, `MaxCrashes` crashes
of notifiers. Symmetry is used in `api` only, which
checks no liveness. `faults` leaves out the deletion of the monitor, after which every check
ends at its first statement, and `api` has it. In `progress` the list of the validation job
takes one row (`ListLimit`): the domains run once with one row and two schedulers, and once
with one scheduler and another user's row that never validates (`"queue"`), since both
together are too many states for liveness.

`services` checks eight modules in one run because they share no state that matters to
their properties: `part` picks one, the others stand still, and the state spaces add up.
`Running` is the set it picks from; `seats` names the one it is about.

* domains: two users who want one host, which one of them controls; two schedulers, one
  failure (`MaxFailures` caps failures, crashes and lapsed mutexes: each scenario needs
  one), one registration per user and host (`MaxAttempts`), one delete at a time.
* billing: two customers, one seat, which may be taken at the start, three changes of
  subscriptions (bought, cancelled, bought again, or two buyers) and one failure.
* access: every handler with every credential for one call, in six spellings (`Sent`: as in
  the table, with a slash at the end, with the first, second or last part in another
  case), while the other logs the session out; one session, one key with two scopes.
* subscriptions: two addresses on a page and one on the newsletter, two notifications.
* import: every export of up to two components and two incidents from a pool with
  unknown statuses, resolved and unresolved ones, and incidents of several components.
* quota: three requests against limits 1 and 3, two imported monitors.
* page: two monitors, a group of the user and one of somebody else, one request, two changes under it, one failing statement.
* secrets: two api processes and a scheduler, a monitor and a channel, two key versions:
  enough for three environments to be in use side by side.

### Fairness

* worker: the pull loop never stops and a handler ends (its context has a 60 s
  deadline): weak fairness of a worker's steps and of fetching; JetStream's AckWait
  timer fires.
* scheduler: time passes and no goroutine is starved. Strong fairness of taking the
  free lock, of beginning a round and of a publish: the ticker fires about ten times
  in a lease, and neither Redis nor NATS fails every time.
* scheduler map: requests end, processes are restarted, and an instance that keeps
  coming back gets to receive an event (strong, since each restart interrupts it).
  It may die every time before it has handled what it received: then only
  `MaxDeliver` ends the redeliveries.
* notifier: `Handle` ends (a group of thirty seconds, three writes), the server delivers
  what is ready and its timers end, a notifier that died is restarted; all weak. No
  attempt has to succeed, no breaker to close: `MaxDeliver` ends a hopeless alert.
* domains: some scheduler's ticker fires and finds the mutex free (weak, of the
  schedulers together), a run goes on, an abandoned key expires.
* billing: LemonSqueezy repeats what was not answered, and a handler goes on (weak per
  webhook).

In `progress` each of these is weak or strong fairness of the action in the behaviours
of its part. Deadlock is checked for the scheduler. The other systems stop when their
bounded tasks, requests or webhooks are used up, so their cfgs switch the check off.

## 4. Proofs

All for every value of the constants, from the modules' ASSUMEs: positive thresholds,
deliveries, leases and caps; fault names; lock values distinct from processes; sessions
distinct from keys (a cookie and a bearer header); finite sets of customers and requests;
finite lists in an export; key versions between 1 and 255; every bound on failures a
natural number. No theorem has a further hypothesis: what the code does not guarantee is in
the property (a round older than its lease, a worker that was overtaken, an announcement
that was lost, a founder who came back).

* `TypeCorrect`, `OneOpenIncidentAlways`, `ResolvedHasTimeAlways`,
  `DownAnnouncedOnceAlways`, `RecoveryAnnouncedOnlyResolvedAlways`. The invariant
  `IInv` adds to the properties: a delivery that can still be fetched has deliveries
  left (`TaskBudget`, else the count outgrows its type); what workers and requests
  remember is an incident that exists (`WorkerRefs`, `RequestRefs`); a worker about
  to announce "down" is the only one for its automatic, so far unannounced
  incident, and one about to announce "up" has a resolved one. Without that clause
  announcing once is not inductive: nothing in the tables says who will announce.
* `UptimeCountsStoredChecksAlways`: the aggregate is no larger than the number of rows ever
  stored, those retention deleted included. A worker about to insert has a `checked_at` that
  no row ever stored and no other such worker has (`Fresh`), so the step that may raise the
  aggregate by one also adds a row.
* `AutoIncidentAnnouncedAlways`, whatever fails: inductive together with `IInv` and the fact
  that only incidents of the table are in `unsent`. The worker that inserted an incident goes
  on to `alertDown`; from there the alert is stored, or the incident joins `unsent`; and no
  later insert has that id, so nobody announces it again.
* `FlapProtectionAlways`, for any number of workers and requests. `Cooled`: a worker between
  the cooldown check and the insert has found no recent resolution, and there is none since
  unless it is in `raced`.
* `DetectionKeepsContract`: under `IInv` every step maps to a step of
  `IncidentContract` or to a stutter.
* `SchedulerTypeCorrect` and `OneDispatcherAlways`. `Fenced`: an instance whose round is
  younger than the lease holds it, and `ttl + age >= Lease`, since the lease was extended
  when the round began; two such rounds would have one holder.
* `SyncTypeCorrect`, with the ids of requests within their bound.
* `DeliveryTypeCorrect` and `AckAccountsForAllAlways`. The invariant has three parts.
  `Budget`: an alert that may be delivered has deliveries left, and its timer ended at
  most once per delivery that is over. `Phase`: a busy notifier holds the alert it works
  on, an idle one remembers nothing. `Accounts`: a goroutine that says "sent" was heard
  (for the alert that is still at the head of the inbox), and a handler past `writeToDLQ`
  has its row. The alert at the head does not change while it is handled, whatever is
  delivered, redelivered or crashes elsewhere: that step (`HandlersKept`) carries all
  the actions outside `Handle`.
* `ResendOnlyAfterTimeoutAlways` and `GivenUpReachedNobodyAlways`, from one balance
  (`HeardOnce`): what a channel heard of an alert, plus the deliveries under way in
  which it has not heard it (`Unsent`), plus one while the server may hand the alert out
  again or has given it up (`Back`), is at most one more than the alert's timeouts.
  Handing out moves a unit from `Back` to `Unsent`, a send from `Unsent` to `heard`; a
  nak moves one from `Unsent` to `Back`, because the channel did not hear of that
  delivery (`NakSentNobody`); a timeout adds to both sides. The bare properties are not
  inductive: nothing in them says how many old deliveries other notifiers still hold.
* `OversoldOnlyByReturnsAlways`. `SeatsInv` bounds the founders tagged since their last
  upgrade (`Seated`) by the cap, and adds that a handler about to write "founder" holds the
  advisory lock and has a seat left. The count it made sees every founder, the bound speaks
  of a subset; plans may only shrink that, and nobody else can add to it while the lock is
  held. The founders beyond the cap are thus among those not tagged since.
* `PlanFollowsSubscriptionAlways`. `SentInOrder`: the last event of a customer tells
  whether he subscribes. `AppliedInOrder`: once a handler has changed the plan, all older
  events of its customer are done, or he is `muddled`; and the plan is what the last
  applied event of a customer who is not muddled says. The property is the case in which
  all his events are applied.
* `OwnedWithinLimitAlways`. `QuotaInv` counts the requests between count and insert
  (`Between`) together with the monitors they will add: the first of them saw fewer
  monitors than the limit, each other adds at most one to the excess, and `crowd`
  remembers how many there were at once.
* `SecretsTypeCorrect` and `SeamlessRotationAlways`. `KeysKnown`: every key a column, a
  request's copy or a running process may write with is known to the environment and to
  all processes that have keys. Adding keeps it since it only grows; changing the primary
  needs all processes to know the new one; retiring needs no writer left.
* `AccessTypeCorrect`, `HandlerTrustsChainAlways`, `SpentStaysSpentAlways`. The route table
  is data: the lemmas about it evaluate the selectors on every route, in groups of
  handlers by the number of parts of their path, with `UnderPart` for `HasPrefix`. They
  place the routes that ask for a user (`RouteOK`), so that an open one asks nobody
  (`OpenAsksNobody`), and show that the gate sees every handler of `ForPro` but the groups in the spelling of the
  table. `CallOK` carries through the chain what the selectors said of the path as sent: no
  user only where they find it open, Pro where they find it gated, a key past the look-up has
  the scope they read off, and a call begun after its credential was spent never gets past
  authentication. A path whose first part is `api` is not open for a handler that asks,
  whatever its other parts are: `IsPublic` names nothing a different spelling could hit.
* `ImportMatchesAlways`. `WrittenOK`: before a turn, `written` holds exactly the attached
  incidents of the turns before, each once, and a row that is not closed is the last of its
  monitor, because a later turn would have met the index. Nothing is stored before `Commit`.
* `DomainsTypeCorrect`, `ActiveHasCertAlways`, `RoutesOnlyOwnerAlways`. `DomainsInv` has
  three parts. `TableOK`: a host has one live row, an active row has a certificate, and an
  active or validated one belongs to who controls the host. `RunsOK`: a row
  that a run listed as validated or active, however long ago, belongs to who controls its
  host; the row `Provision` finds is the listed one unless that was deleted, since host
  names are unique among live rows; a row about to be activated has a certificate or is
  gone. `MapsOK`: each map, and each list on its way into one, routes hosts only to who
  controls them.
* `LifecycleUnderLockAlways`. `LockOK`: until its mutex lapses, the run inside a job is
  the one that holds it. `Kept`: the rows such a run has listed have not moved on except
  by its own steps or by being deleted.
* `StatusPageTypeCorrect`, `AllUpWasTrueAlways`, `SectionsResolveAlways`. `BannerOK`: each
  monitor already counted as fine was so at a moment of this request. `GroupsOK`: the
  group of a monitor on the page is somebody else's, or was there when it was read and is
  listed unless it was deleted since.
* `SubscriptionsTypeCorrect`, `MailNeedsConsentAlways`, `BatchReachesAllAlways`. `NoticeOK`:
  whoever is left to be mailed has consented, and whoever was confirmed when the batch
  began is told, failed, still left, or has unsubscribed.
* `ServicesTypeCorrect`: in `MCServices` the part that was picked keeps its own invariant,
  the others do not move.

Every invariant and every safety action property of the passing runs is thus a theorem, but
for `Agreement`: it holds only for one instance and one request at a time, without the races
that matter. The run checks it there, and a theorem would add the same hypotheses. Also only
model-checked: the liveness properties (`EveryTaskSettles`, `KeepsDispatching`,
`DeletedUnscheduled`, `Quiesces`, `EveryAlertSettles`, `ServedBecomesActive`,
`PaidBecomesPro`), which rest on fairness and are out of the prover's reach. The
properties of the violated runs are refuted, hence not theorems.

## 5. What could be added

1. `AlertDelivery` composed with `IncidentDetection` through the `ALERTS` stream.
2. Abstract specifications of the services (a lock service for `LockedLoop`, a page as one
   read), shown to be implemented.
3. The partitions and the SSL scan, which need calendar time; the uptime percentages as
   operators against a reference definition.

## 6. Not modelled

Probes and senders are I/O (a probe is a choice of up or down, a send of success or
failure). Feeds, exports, charts and uptime percentages only read. Of the
retention job the DELETE is modelled, the DDL of next month's partition is not; the SSL scan
reads and mails: both need thresholds and calendar months to go wrong, which no bound here
represents. Decoding of
bodies, rendering of errors, passwords, slugs, token generation, the counters behind a
rate limit, metrics, tracing and configuration keep no protocol state. The frontend is a
client of the API. Generated code (`api/gen`, `sqlc/gen`) is modelled by the handlers and
queries it carries, not for itself.
