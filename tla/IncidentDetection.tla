------------------------- MODULE IncidentDetection -------------------------
(***************************************************************************)
(* How check results become incidents and alerts, for one monitor.         *)
(*                                                                         *)
(* Worker processes pull check tasks from the CHECKS work queue, probe the *)
(* target and run MonitoringService.ProcessCheckResult, whose every SQL    *)
(* statement and every publish is a step of its own here: nothing in the   *)
(* code holds a lock or a transaction across them.  Concurrently the API   *)
(* opens manual incidents and moves incidents through their public states. *)
(*                                                                         *)
(* All queries are keyed by monitor_id, so one monitor is enough; its      *)
(* configuration (AlertAfterFailures) is fixed.                            *)
(***************************************************************************)
EXTENDS Naturals, Sequences, FiniteSets

CONSTANTS
  Workers,             \* worker processes (each handles its tasks one by one)
  Requests,            \* concurrent API requests
  Tasks,               \* check tasks the scheduler publishes for the monitor
  AlertAfterFailures,  \* the monitor's alert_after_failures
  MaxDeliver,          \* deliveries of one task (checker-workers consumer)
  MaxManual,           \* bound: manual incidents a request may still open
  Faults               \* what may happen beside checks and requests: see FaultKinds

\* "db": a statement fails; "publish": js.Publish returns an error, whether or
\* not the stream stored the message; "crash": a worker process dies;
\* "delete": the user deletes the monitor while checks are under way;
\* "retention": the daily job deletes old rows of check_results.
FaultKinds == {"db", "publish", "crash", "delete", "retention"}

ASSUME DetectionAssumption ==
  /\ AlertAfterFailures \in Nat \ {0}
  /\ MaxDeliver \in Nat \ {0}
  /\ MaxManual \in Nat
  /\ Faults \subseteq FaultKinds

VARIABLES
  status,       \* monitors.current_status
  deleted,      \* monitors.deleted_at IS NOT NULL
  results,      \* rows of check_results
  uptime,       \* the hourly aggregate: checks counted, and how many were up
  incidents,    \* rows of incidents; the id of a row is its index
  alerts,       \* messages stored in the ALERTS stream, in order
  tasks,        \* the CHECKS stream as its consumer sees it
  clock,        \* checked_at of the latest check
  pc,           \* per worker: the statement it executes next
  job,          \* per worker: its task and its local variables
  req,          \* per API request: what it decided to write
  \* History, which no guard reads:
  pruned,       \* rows of check_results that retention deleted
  unsent,       \* incidents whose announcement was not stored, or died with its worker
  raced         \* workers past their cooldown check since which something was resolved

db      == <<status, deleted, results, uptime, incidents>>
streams == <<alerts, tasks>>
history == <<pruned, unsent, raced>>
vars    == <<db, streams, clock, pc, job, req, history>>

States   == {"investigating", "identified", "monitoring", "resolved"}
Observed == {"up", "down"}

\* resolved_at: null, within the last five minutes, or longer ago.
Incident == [kind: {"auto", "manual"}, state: States,
             resolvedAt: {"null", "recent", "past"},
             posted: States \cup {"none"}]   \* state of the latest incident_updates row

Job == [task: Tasks \cup {"none"}, at: Nat, result: Observed,
        prev: Observed \cup {"unknown"}, incident: Nat]

Alert   == [event: Observed, incident: Nat]
Task    == [place: {"ready", "out", "gone"}, delivered: 0..MaxDeliver]
Request == [pc: {"idle", "change", "create"}, incident: Nat, next: States]

NoJob     == [task |-> "none", at |-> 0, result |-> "up", prev |-> "unknown", incident |-> 0]
NoRequest == [pc |-> "idle", incident |-> 0, next |-> "investigating"]

Steps == {"idle", "insert", "snapshot", "status",
          "failures", "cooldown", "create", "alertDown",
          "getOpen", "resolve", "alertUp", "ack", "nak"}

TypeOK ==
  /\ status \in Observed \cup {"unknown"}
  /\ deleted \in BOOLEAN
  /\ results \subseteq [at: Nat, status: Observed]
  /\ uptime \in [total: Nat, up: Nat]
  /\ incidents \in Seq(Incident)
  /\ alerts \in Seq(Alert)
  /\ tasks \in [Tasks -> Task]
  /\ clock \in Nat
  /\ pc \in [Workers -> Steps]
  /\ job \in [Workers -> Job]
  /\ req \in [Requests -> Request]
  /\ pruned \subseteq [at: Nat, status: Observed]
  /\ unsent \subseteq Nat
  /\ raced \subseteq Workers

-----------------------------------------------------------------------------
(* The queries *)

Open(i) == incidents[i].resolvedAt = "null"

\* Downs newer than the latest up, by checked_at.
ConsecutiveFailures ==
  Cardinality({r \in results : /\ r.status = "down"
                               /\ \A u \in results : u.status = "up" => u.at < r.at})

IsInCooldownInverted == \E i \in DOMAIN incidents : incidents[i].resolvedAt = "past"
IsInCooldown == \E i \in DOMAIN incidents : incidents[i].resolvedAt = "recent"

\* The partial unique index on incidents(monitor_id) WHERE resolved_at IS NULL.
IncidentExistsNoIndex == FALSE
IncidentExists == \E i \in DOMAIN incidents : Open(i)

CreateIncident(kind, posted) ==
  incidents' = Append(incidents, [kind |-> kind, state |-> "investigating",
                                  resolvedAt |-> "null", posted |-> posted])

\* History: the workers whose cooldown check a resolution now outdates.
Outdates == raced' = raced \cup {w \in Workers : pc[w] = "create"}

ResolveIncident(i) ==
  /\ incidents' = [incidents EXCEPT ![i] = [@ EXCEPT !.resolvedAt = "recent", !.state = "resolved"]]
  /\ Outdates

Rank == [investigating |-> 0, identified |-> 1, monitoring |-> 2, resolved |-> 3]

CanTransitionTo(s, next) ==
  \/ s = next
  \/ Rank[next] > Rank[s]
  \/ s = "monitoring" /\ next = "identified"

-----------------------------------------------------------------------------
(* The CHECKS stream: a work queue with one durable consumer.  A task may   *)
(* wait there for any time, so when it was published does not matter.       *)

\* What the consumer does with a delivery it still owes an answer.
RedeliverForever(t) == [tasks[t] EXCEPT !.place = "ready"]
Redeliver(t) ==
  [tasks[t] EXCEPT !.place = IF tasks[t].delivered < MaxDeliver THEN "ready" ELSE "gone"]

\* AckWait runs out although the worker may still be busy with the task:
\* it fetches ten at a time and handles them one after another.
AckWaitExpires(t) ==
  /\ tasks[t].place = "out"
  /\ tasks' = [tasks EXCEPT ![t] = Redeliver(t)]
  /\ UNCHANGED <<db, alerts, clock, pc, job, req, history>>

-----------------------------------------------------------------------------
(* A worker.  Goto moves it to its next statement.                         *)

Goto(w, step) == pc' = [pc EXCEPT ![w] = step]

Done(w) == Goto(w, "idle") /\ job' = [job EXCEPT ![w] = NoJob]

\* Fetch, load the monitor, probe the target.  checked_at is the start of the probe.
Fetch(w, t) ==
  /\ pc[w] = "idle"
  /\ tasks[t].place = "ready"
  /\ tasks' = [tasks EXCEPT ![t] = [place |-> "out", delivered |-> @.delivered + 1]]
  /\ \/ /\ ~deleted
        /\ clock' = clock + 1
        /\ \E r \in Observed :
             job' = [job EXCEPT ![w] = [task |-> t, at |-> clock', result |-> r,
                                        prev |-> "unknown", incident |-> 0]]
        /\ Goto(w, "insert")
     \/ /\ deleted \/ "db" \in Faults
        /\ job' = [job EXCEPT ![w].task = t]
        /\ Goto(w, "nak")
        /\ UNCHANGED clock
  /\ UNCHANGED <<db, alerts, req, history>>

\* The hourly aggregate after the check of worker w was counted.
CountCheck(w) ==
  [total |-> uptime.total + 1, up |-> uptime.up + (IF job[w].result = "up" THEN 1 ELSE 0)]

\* The check_results row, then the hourly aggregate, whose error is only logged.
\* Nothing here reads the aggregate, so the two statements are one step, which a
\* crash may cut short.
InsertResultCountsFirst(w) ==
  /\ pc[w] = "insert"
  /\ uptime' = CountCheck(w)
  /\ \/ /\ results' = results \cup {[at |-> job[w].at, status |-> job[w].result]}
        /\ Goto(w, "snapshot") /\ UNCHANGED job
     \/ "crash" \in Faults /\ UNCHANGED results /\ Done(w)
  /\ UNCHANGED <<status, deleted, incidents, streams, clock, req, history>>

InsertResult(w) ==
  /\ pc[w] = "insert"
  /\ results' = results \cup {[at |-> job[w].at, status |-> job[w].result]}
  /\ \/ uptime' = CountCheck(w) /\ Goto(w, "snapshot") /\ UNCHANGED job
     \/ "db" \in Faults /\ UNCHANGED uptime /\ Goto(w, "snapshot") /\ UNCHANGED job
     \/ "crash" \in Faults /\ UNCHANGED uptime /\ Done(w)
  /\ UNCHANGED <<status, deleted, incidents, streams, clock, req, history>>

\* UpdateMonitorStatus is one statement, but its CTE reads current_status in
\* the statement's snapshot (no FOR UPDATE), while the UPDATE waits for the row
\* lock and applies to the newest version of the row.
SnapshotStatus(w) ==
  /\ pc[w] = "snapshot"
  /\ job' = [job EXCEPT ![w].prev = status]
  /\ Goto(w, "status")
  /\ UNCHANGED <<db, streams, clock, req, history>>

AfterStatus(result, prev) ==
  CASE result = "down"                  -> "failures"
    [] result = "up" /\ prev = "down"   -> "getOpen"
    [] OTHER                            -> "ack"

UpdateStatus(w) ==
  /\ pc[w] = "status"
  /\ \/ /\ ~deleted
        /\ status' = job[w].result
        /\ Goto(w, AfterStatus(job[w].result, job[w].prev))
     \/ /\ deleted
        /\ Goto(w, "nak")
        /\ UNCHANGED status
  /\ UNCHANGED <<deleted, results, uptime, incidents, streams, clock, job, req, history>>

(* handleDown *)

CheckFailures(w) ==
  /\ pc[w] = "failures"
  /\ Goto(w, IF ConsecutiveFailures < AlertAfterFailures THEN "ack" ELSE "cooldown")
  /\ UNCHANGED <<db, streams, clock, job, req, history>>

\* IsInCooldown, then maintenance.HasActive.  Windows begin and end at any time
\* and an error of HasActive is only logged, so a worker that passed the cooldown
\* may or may not go on.
CheckCooldownAndMaintenance(w) ==
  /\ pc[w] = "cooldown"
  /\ \/ Goto(w, "ack") /\ UNCHANGED raced
     \/ ~IsInCooldown /\ Goto(w, "create") /\ raced' = raced \ {w}
  /\ UNCHANGED <<db, streams, clock, job, req, pruned, unsent>>

\* ErrIncidentExists is swallowed, as handleDown does.
CreateAutoAlertsExisting(w) ==
  /\ pc[w] = "create"
  /\ \/ /\ ~IncidentExists
        /\ CreateIncident("auto", "none")
        /\ job' = [job EXCEPT ![w].incident = Len(incidents')]
     \/ /\ IncidentExists
        /\ job' = [job EXCEPT ![w].incident = CHOOSE i \in DOMAIN incidents : Open(i)]
        /\ UNCHANGED incidents
  /\ Goto(w, "alertDown")
  /\ UNCHANGED <<status, deleted, results, uptime, streams, clock, req, history>>

CreateAutoStaleId(w) ==
  /\ pc[w] = "create"
  /\ \/ /\ ~IncidentExists
        /\ CreateIncident("auto", "none")
        /\ job' = [job EXCEPT ![w].incident = Len(incidents)]
        /\ Goto(w, "alertDown")
     \/ /\ IncidentExists
        /\ Goto(w, "ack")
        /\ UNCHANGED <<incidents, job>>
  /\ UNCHANGED <<status, deleted, results, uptime, streams, clock, req, history>>

CreateAuto(w) ==
  /\ pc[w] = "create"
  /\ \/ /\ ~IncidentExists
        /\ CreateIncident("auto", "none")
        /\ job' = [job EXCEPT ![w].incident = Len(incidents')]
        /\ Goto(w, "alertDown")
     \/ /\ IncidentExists
        /\ Goto(w, "ack")
        /\ UNCHANGED <<incidents, job>>
  /\ UNCHANGED <<status, deleted, results, uptime, streams, clock, req, history>>

(* handleRecovery: having no open incident is not an error. *)

GetOpen(w) ==
  /\ pc[w] = "getOpen"
  /\ \/ \E i \in DOMAIN incidents :
          /\ Open(i)
          /\ job' = [job EXCEPT ![w].incident = i]
          /\ Goto(w, "resolve")
     \/ /\ ~IncidentExists
        /\ Goto(w, "ack")
        /\ UNCHANGED job
  /\ UNCHANGED <<db, streams, clock, req, history>>

Resolve(w) ==
  /\ pc[w] = "resolve"
  /\ ResolveIncident(job[w].incident)
  /\ Goto(w, "alertUp")
  /\ UNCHANGED <<status, deleted, results, uptime, streams, clock, job, req, pruned, unsent>>

\* The event worker w publishes at the end of handleDown or handleRecovery.
AlertOf(w) == [event |-> IF pc[w] = "alertDown" THEN "down" ELSE "up",
               incident |-> job[w].incident]

\* History: the announcement worker w was about to make is not made.
Unsent(w) ==
  unsent' = IF pc[w] = "alertDown" THEN unsent \cup {job[w].incident} ELSE unsent

\* A failed publish is returned, so the task is Nak'd; the stream may have
\* stored the message all the same.
PublishAlert(w) ==
  /\ pc[w] \in {"alertDown", "alertUp"}
  /\ \/ /\ alerts' = Append(alerts, AlertOf(w)) /\ UNCHANGED unsent
        /\ Goto(w, "ack")
     \/ /\ "publish" \in Faults
        /\ \/ alerts' = Append(alerts, AlertOf(w)) /\ UNCHANGED unsent
           \/ Unsent(w) /\ UNCHANGED alerts
        /\ Goto(w, "nak")
  /\ UNCHANGED <<db, tasks, clock, job, req, pruned, raced>>

\* The error of a statement is returned (Nak), except that GetOpen's error is
\* taken for "no open incident".
OnErrorResolveLogged(step) ==
  CASE step = "getOpen" -> "ack"
    [] step = "resolve" -> "alertUp"
    [] OTHER            -> "nak"

OnErrorRepeats(step) ==
  CASE step = "getOpen"                          -> "ack"
    [] step \in {"failures", "cooldown", "create"} -> "status"
    [] OTHER                                     -> "nak"

OnError(step) == IF step = "getOpen" THEN "ack" ELSE "nak"

StatementFails(w) ==
  /\ "db" \in Faults
  /\ pc[w] \in {"insert", "status", "failures", "cooldown", "create", "getOpen", "resolve"}
  /\ Goto(w, OnError(pc[w]))
  /\ UNCHANGED <<db, streams, clock, job, req, history>>

\* An answer settles the message even if AckWait already expired.
Ack(w) ==
  /\ pc[w] = "ack"
  /\ tasks' = [tasks EXCEPT ![job[w].task].place = "gone"]
  /\ Done(w)
  /\ UNCHANGED <<db, alerts, clock, req, history>>

Nak(w) ==
  /\ pc[w] = "nak"
  /\ tasks' = [tasks EXCEPT ![job[w].task] =
                 IF @.place = "out" THEN Redeliver(job[w].task) ELSE @]
  /\ Done(w)
  /\ UNCHANGED <<db, alerts, clock, req, history>>

Crash(w) ==
  /\ "crash" \in Faults
  /\ pc[w] # "idle"
  /\ Unsent(w)
  /\ Done(w)
  /\ UNCHANGED <<db, streams, clock, req, pruned, raced>>

Work(w) ==
  \/ InsertResult(w) \/ SnapshotStatus(w) \/ UpdateStatus(w)
  \/ CheckFailures(w) \/ CheckCooldownAndMaintenance(w) \/ CreateAuto(w)
  \/ GetOpen(w) \/ Resolve(w) \/ PublishAlert(w) \/ Ack(w) \/ Nak(w)

-----------------------------------------------------------------------------
(* The API: a request decides on what it reads, then writes in a transaction. *)

Idle(r) == req' = [req EXCEPT ![r] = NoRequest]

BeginChangeState(r, i, next) ==
  /\ req[r].pc = "idle"
  /\ ~deleted
  /\ CanTransitionTo(incidents[i].state, next)
  /\ req' = [req EXCEPT ![r] = [pc |-> "change", incident |-> i, next |-> next]]
  /\ UNCHANGED <<db, streams, clock, pc, job, history>>

\* One transaction: UpdateState, Resolve when resolving, and the update row.
MovedStateOnly(x, next) == [x EXCEPT !.state = next, !.posted = next]
Moved(x, next) ==
  [x EXCEPT !.state = next, !.posted = next,
            !.resolvedAt = IF next = "resolved" THEN "recent" ELSE x.resolvedAt]

CommitChangeState(r) ==
  /\ req[r].pc = "change"
  /\ incidents' = [incidents EXCEPT ![req[r].incident] = Moved(@, req[r].next)]
  /\ IF req[r].next = "resolved" THEN Outdates ELSE UNCHANGED raced
  /\ Idle(r)
  /\ UNCHANGED <<status, deleted, results, uptime, streams, clock, pc, job, pruned, unsent>>

BeginManualIncident(r) ==
  /\ req[r].pc = "idle"
  /\ ~deleted
  /\ Cardinality({i \in DOMAIN incidents : incidents[i].kind = "manual"}) < MaxManual
  /\ req' = [req EXCEPT ![r].pc = "create"]
  /\ UNCHANGED <<db, streams, clock, pc, job, history>>

CommitManualIncident(r) ==
  /\ req[r].pc = "create"
  /\ ~IncidentExists
  /\ CreateIncident("manual", "investigating")
  /\ Idle(r)
  /\ UNCHANGED <<status, deleted, results, uptime, streams, clock, pc, job, history>>

\* The transaction rolls back: a unique violation or a database error.
RollBack(r) ==
  /\ \/ req[r].pc = "create" /\ IncidentExists
     \/ req[r].pc # "idle" /\ "db" \in Faults
  /\ Idle(r)
  /\ UNCHANGED <<db, streams, clock, pc, job, history>>

-----------------------------------------------------------------------------
(* The environment: the user deletes the monitor, five minutes or months pass. *)

DeleteMonitor ==
  /\ "delete" \in Faults
  /\ ~deleted
  /\ deleted' = TRUE
  /\ UNCHANGED <<status, results, uptime, incidents, streams, clock, pc, job, req, history>>

CooldownElapses(i) ==
  /\ incidents[i].resolvedAt = "recent"
  /\ incidents' = [incidents EXCEPT ![i] = [@ EXCEPT !.resolvedAt = "past"]]
  /\ UNCHANGED <<status, deleted, results, uptime, streams, clock, pc, job, req, history>>

\* The daily retention job: rows older than the plan's thirty or 365 days go,
\* none of a check still in a worker's hands.  The hourly aggregate stays.
DeleteByPlan(cutoff) ==
  /\ "retention" \in Faults
  /\ \A w \in Workers : pc[w] # "idle" => cutoff <= job[w].at
  /\ results' = {r \in results : r.at >= cutoff}
  /\ pruned' = pruned \cup (results \ results')
  /\ UNCHANGED <<status, deleted, uptime, incidents, streams, clock, pc, job, req, unsent, raced>>

-----------------------------------------------------------------------------
Init ==
  /\ status = "unknown"
  /\ deleted = FALSE
  /\ results = {}
  /\ uptime = [total |-> 0, up |-> 0]
  /\ incidents = <<>>
  /\ alerts = <<>>
  /\ tasks = [t \in Tasks |-> [place |-> "ready", delivered |-> 0]]
  /\ clock = 0
  /\ pc = [w \in Workers |-> "idle"]
  /\ job = [w \in Workers |-> NoJob]
  /\ req = [r \in Requests |-> NoRequest]
  /\ pruned = {} /\ unsent = {} /\ raced = {}

Next ==
  \/ \E t \in Tasks : AckWaitExpires(t)
  \/ \E w \in Workers : \/ \E t \in Tasks : Fetch(w, t)
                        \/ Work(w) \/ StatementFails(w) \/ Crash(w)
  \/ \E r \in Requests : \/ \E i \in DOMAIN incidents, next \in States : BeginChangeState(r, i, next)
                         \/ CommitChangeState(r)
                         \/ BeginManualIncident(r) \/ CommitManualIncident(r) \/ RollBack(r)
  \/ DeleteMonitor
  \/ \E i \in DOMAIN incidents : CooldownElapses(i)
  \/ \E r \in results : DeleteByPlan(r.at + 1)

\* The pull loop never stops fetching, a handler runs to its end (its context
\* times out after 60 s), and JetStream's AckWait timer fires.
Fairness ==
  /\ \A w \in Workers : WF_vars(Work(w)) /\ WF_vars(\E t \in Tasks : Fetch(w, t))
  /\ \A t \in Tasks : WF_vars(AckWaitExpires(t))

Spec == Init /\ [][Next]_vars
FairSpec == Spec /\ Fairness

-----------------------------------------------------------------------------
(* What must hold whatever fails *)

\* A monitor has at most one open incident, however the workers' and the API's
\* creates, resolves and state changes interleave.
OneOpenIncident ==
  \A i, j \in DOMAIN incidents : Open(i) /\ Open(j) => i = j

\* An incident shown as resolved has a resolution time: the two updates of
\* ChangeIncidentState's transaction and the worker's Resolve never leave the
\* state alone.  (The converse is LifecycleRespected's business.)
ResolvedHasTime ==
  \A i \in DOMAIN incidents : incidents[i].state = "resolved" => ~Open(i)

\* No incident is announced as down twice, although a task is redelivered and
\* handleDown runs on every failed check; manual incidents are not announced.
DownAnnouncedOnce ==
  /\ \A a, b \in DOMAIN alerts :
       /\ alerts[a].event = "down" /\ alerts[b].event = "down"
       /\ alerts[a].incident = alerts[b].incident
       => a = b
  /\ \A a \in DOMAIN alerts :
       alerts[a].event = "down" => /\ alerts[a].incident \in DOMAIN incidents
                                   /\ incidents[alerts[a].incident].kind = "auto"

\* A recovery is announced only for an incident that is resolved, and it stays
\* resolved: nothing clears resolved_at, not even a stale state change.
RecoveryAnnouncedOnlyResolved ==
  \A a \in DOMAIN alerts :
    alerts[a].event = "up" => /\ alerts[a].incident \in DOMAIN incidents
                              /\ ~Open(alerts[a].incident)

\* The hourly aggregate never counts a check that was not stored, in total or as
\* up: a redelivered task probes again and is a new check.  Retention deletes the
\* rows and leaves the aggregate, so the rows it deleted count here.
EverStored == results \cup pruned
UptimeCountsStoredChecks ==
  /\ uptime.total <= Cardinality(EverStored)
  /\ uptime.up <= Cardinality({r \in EverStored : r.status = "up"})

\* Every dispatched task is eventually acknowledged or out of deliveries, with
\* Naks, crashes and AckWait expiring under a busy worker.
EveryTaskSettles == \A t \in Tasks : tasks[t].place = "ready" ~> tasks[t].place = "gone"

\* The pipeline keeps the contract: an incident is an outage, open while
\* resolved_at is null, and the ALERTS stream is what has been told.
Outages == [i \in DOMAIN incidents |->
              [kind |-> incidents[i].kind, phase |-> IF Open(i) THEN "open" ELSE "closed"]]
Contract == INSTANCE IncidentContract WITH outages <- Outages, told <- alerts
KeepsContract == Contract!Spec

\* An incident the workers opened is announced, its worker is about to, or that
\* one announcement was lost, with a failed publish or a dead worker, and then
\* it is never made: no retry and no later check announces the incident.
Announced(i) == \E a \in DOMAIN alerts : alerts[a] = [event |-> "down", incident |-> i]
Announcing(i) == \E w \in Workers : pc[w] = "alertDown" /\ job[w].incident = i

AutoIncidentAnnounced ==
  /\ \A i \in DOMAIN incidents :
       incidents[i].kind = "auto" => Announced(i) \/ Announcing(i) \/ i \in unsent
  /\ \A i \in unsent : ~Announced(i) /\ ~Announcing(i)

\* No automatic incident is opened within five minutes of a resolution, unless
\* that resolution came between its worker's cooldown check and its insert.
FlapProtection ==
  [][ /\ Len(incidents') > Len(incidents)
      /\ incidents'[Len(incidents')].kind = "auto"
      => \/ ~IsInCooldown
         \/ \E w \in raced : pc[w] = "create" /\ pc'[w] = "alertDown" ]_vars

-----------------------------------------------------------------------------
(* What the documents say and the code does not keep *)

Quiet == \A w \in Workers : pc[w] = "idle"
NoneOpen == \A i \in DOMAIN incidents : incidents[i].kind = "auto" => ~Open(i)

\* When the newest check is a successful one and no check is under way, a monitor
\* that recovered has no automatic incident open.
RecoveredMonitorIsClear ==
  /\ Quiet
  /\ status = "up"
  /\ \E u \in results : u.status = "up" /\ \A r \in results : r.at <= u.at
  => NoneOpen

\* A check that finds its incident open already is settled in silence only if
\* somebody announced that incident or is about to.
SilenceMeansAnnounced ==
  [][ \A w \in Workers : pc[w] = "create" /\ pc'[w] = "ack" =>
        \A i \in DOMAIN incidents :
          Open(i) /\ incidents[i].kind = "auto" => Announced(i) \/ Announcing(i) ]_vars

\* The state of an incident only ever takes the moves CanTransitionTo allows.
LifecycleRespected ==
  [][ \A i \in DOMAIN incidents :
        CanTransitionTo(incidents[i].state, incidents'[i].state) ]_vars
=============================================================================
