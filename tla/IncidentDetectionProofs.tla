---------------------- MODULE IncidentDetectionProofs ----------------------
(***************************************************************************)
(* Proofs about IncidentDetection for every number of workers, requests    *)
(* and tasks and every set of faults.                                      *)
(*                                                                         *)
(* OneOpenIncident, DownAnnouncedOnce and RecoveryAnnouncedOnlyResolved    *)
(* are not inductive: they need to know what a worker in the middle of     *)
(* handleDown or handleRecovery holds in its local variables.  That is     *)
(* WorkerRefs, and RequestRefs for the API.                                *)
(*                                                                         *)
(* The last parts prove what the history variables are for: the aggregate  *)
(* against every row there ever was, the fate of each announcement, and    *)
(* which incidents get past the cooldown.                                  *)
(***************************************************************************)
EXTENDS IncidentDetection, SequenceTheorems, FiniteSetTheorems, TLAPS

\* No alert of kind "down" for incident i is in the stream.
Untold(i) == \A a \in DOMAIN alerts : ~(alerts[a].event = "down" /\ alerts[a].incident = i)

\* What a worker's locals refer to: a worker about to announce an incident is
\* the only one, and is the first to; a worker about to announce a recovery has
\* resolved the incident.
WorkerRefs ==
  \A w \in Workers :
    /\ pc[w] # "idle" => job[w].task \in Tasks
    /\ pc[w] \in {"alertDown", "resolve", "alertUp"} => job[w].incident \in DOMAIN incidents
    /\ pc[w] = "alertUp" => ~Open(job[w].incident)
    /\ pc[w] = "alertDown" =>
         /\ incidents[job[w].incident].kind = "auto"
         /\ Untold(job[w].incident)
         /\ \A v \in Workers : pc[v] = "alertDown" /\ job[v].incident = job[w].incident => v = w

RequestRefs ==
  \A r \in Requests : req[r].pc = "change" => req[r].incident \in DOMAIN incidents

AlertRefs == \A a \in DOMAIN alerts : alerts[a].incident \in DOMAIN incidents

\* A task the consumer will still deliver has deliveries left.
TaskBudget == \A t \in Tasks : tasks[t].place = "ready" => tasks[t].delivered < MaxDeliver

TypeInv == TypeOK /\ TaskBudget

\* The state of the table, and of the stream with respect to the table.
Table == OneOpenIncident /\ ResolvedHasTime
Told  == AlertRefs /\ DownAnnouncedOnce /\ RecoveryAnnouncedOnlyResolved

IInv == TypeInv /\ Table /\ Told /\ WorkerRefs /\ RequestRefs

-----------------------------------------------------------------------------
(* Facts about the records and about moving a worker. *)

LEMMA JobLocals ==
  ASSUME NEW j \in Job
  PROVE  /\ \A p \in Observed \cup {"unknown"} : [j EXCEPT !.prev = p] \in Job
         /\ \A i \in Nat : [j EXCEPT !.incident = i] \in Job
         /\ \A t \in Tasks : [j EXCEPT !.task = t] \in Job
<1>1. ASSUME NEW p \in Observed \cup {"unknown"} PROVE [j EXCEPT !.prev = p] \in Job
  BY DEF Job
<1>2. ASSUME NEW i \in Nat PROVE [j EXCEPT !.incident = i] \in Job
  BY DEF Job
<1>3. ASSUME NEW t \in Tasks PROVE [j EXCEPT !.task = t] \in Job
  BY DEF Job
<1> QED BY <1>1, <1>2, <1>3

LEMMA NoJobIsJob == NoJob \in Job
BY DEF NoJob, Job, Observed

LEMMA NoRequestIsRequest == NoRequest \in Request
BY DEF NoRequest, Request, States

LEMMA IncidentFields ==
  ASSUME NEW x \in Incident
  PROVE  /\ [x EXCEPT !.resolvedAt = "recent", !.state = "resolved"] \in Incident
         /\ [x EXCEPT !.resolvedAt = "past"] \in Incident
         /\ \A next \in States : Moved(x, next) \in Incident
<1>1. [x EXCEPT !.resolvedAt = "recent", !.state = "resolved"] \in Incident
  BY DEF Incident, States
<1>2. [x EXCEPT !.resolvedAt = "past"] \in Incident
  BY DEF Incident
<1>3. ASSUME NEW next \in States PROVE Moved(x, next) \in Incident
  BY DEF Moved, Incident
<1> QED BY <1>1, <1>2, <1>3

\* The row an INSERT adds, and what a changed row leaves of the table.
LEMMA IncidentAppend ==
  ASSUME TypeOK, NEW kind \in {"auto", "manual"}, NEW posted \in States \cup {"none"},
         CreateIncident(kind, posted)
  PROVE  incidents' \in Seq(Incident)
<1>1. [kind |-> kind, state |-> "investigating", resolvedAt |-> "null", posted |-> posted] \in Incident
  BY DEF Incident, States
<1> QED BY <1>1 DEF TypeOK, CreateIncident

LEMMA IncidentUpdate ==
  ASSUME TypeOK, NEW i, NEW x, i \in DOMAIN incidents => x \in Incident,
         incidents' = [incidents EXCEPT ![i] = x]
  PROVE  /\ incidents' \in Seq(Incident)
         /\ DOMAIN incidents' = DOMAIN incidents
         /\ \A j \in DOMAIN incidents : incidents'[j] = IF j = i THEN x ELSE incidents[j]
<1>1. incidents \in Seq(Incident) /\ DOMAIN incidents = 1..Len(incidents)
  BY DEF TypeOK
<1>2. CASE i \in DOMAIN incidents
  BY <1>1, <1>2, ExceptSeq
<1>3. CASE i \notin DOMAIN incidents
  <2>1. incidents' = incidents
    BY <1>1, <1>3
  <2> QED BY <1>1, <1>3, <2>1
<1> QED BY <1>2, <1>3

LEMMA GotoType ==
  ASSUME TypeOK, NEW w \in Workers, NEW step \in Steps, Goto(w, step)
  PROVE  pc' \in [Workers -> Steps]
BY DEF TypeOK, Goto

LEMMA DoneType ==
  ASSUME TypeOK, NEW w \in Workers, Done(w)
  PROVE  pc' \in [Workers -> Steps] /\ job' \in [Workers -> Job]
BY NoJobIsJob DEF TypeOK, Done, Goto, Steps

LEMMA IdleType ==
  ASSUME TypeOK, NEW r \in Requests, Idle(r)
  PROVE  req' \in [Requests -> Request]
BY NoRequestIsRequest DEF TypeOK, Idle

LEMMA RedeliverType ==
  ASSUME TypeInv, NEW t \in Tasks
  PROVE  /\ Redeliver(t) \in Task
         /\ Redeliver(t).place = "ready" => Redeliver(t).delivered < MaxDeliver
<1>1. tasks[t] \in Task
  BY DEF TypeInv, TypeOK
<1> QED BY <1>1, DetectionAssumption DEF Redeliver, Task

\* A changed entry keeps tasks well typed and within budget.
LEMMA TaskUpdate ==
  ASSUME TypeInv, NEW t, NEW x \in Task,
         x.place = "ready" => x.delivered < MaxDeliver,
         tasks' = [tasks EXCEPT ![t] = x]
  PROVE  tasks' \in [Tasks -> Task] /\ TaskBudget'
BY DEF TypeInv, TypeOK, TaskBudget

-----------------------------------------------------------------------------
LEMMA InitType == Init => TypeInv
<1> SUFFICES ASSUME Init PROVE TypeInv
  OBVIOUS
<1>1. job \in [Workers -> Job]
  BY NoJobIsJob DEF Init
<1>2. req \in [Requests -> Request]
  BY NoRequestIsRequest DEF Init
<1>3. tasks \in [Tasks -> Task] /\ TaskBudget
  BY DetectionAssumption DEF Init, Task, TaskBudget
<1>4. incidents \in Seq(Incident) /\ alerts \in Seq(Alert)
  BY DEF Init
<1>5. uptime \in [total: Nat, up: Nat]
  BY DEF Init
<1>6. pc \in [Workers -> Steps]
  BY DEF Init, Steps
<1> QED BY <1>1, <1>2, <1>3, <1>4, <1>5, <1>6 DEF Init, TypeInv, TypeOK, Observed

LEMMA FetchType ==
  ASSUME TypeInv, NEW w \in Workers, NEW t \in Tasks, Fetch(w, t)
  PROVE  TypeInv'
<1>1. tasks[t] \in Task /\ tasks[t].delivered < MaxDeliver
  BY DEF TypeInv, TypeOK, TaskBudget, Fetch
<1>2. [place |-> "out", delivered |-> tasks[t].delivered + 1] \in Task
  BY <1>1, DetectionAssumption DEF Task
<1>3. tasks' \in [Tasks -> Task] /\ TaskBudget'
  BY <1>2, TaskUpdate DEF Fetch
<1>4. clock' \in Nat
  BY DEF Fetch, TypeInv, TypeOK
<1>5. pc' \in [Workers -> Steps]
  BY GotoType DEF Fetch, TypeInv, Steps
<1>6. job' \in [Workers -> Job]
  <2>1. CASE UNCHANGED clock
    <3>1. PICK j \in Job : job' = [job EXCEPT ![w] = j]
      BY <2>1, JobLocals DEF Fetch, TypeInv, TypeOK
    <3> QED BY <3>1 DEF TypeInv, TypeOK
  <2>2. CASE clock' = clock + 1
    <3>1. PICK j \in Job : job' = [job EXCEPT ![w] = j]
      BY <2>2, <1>4 DEF Fetch, TypeInv, TypeOK, Job, Observed
    <3> QED BY <3>1 DEF TypeInv, TypeOK
  <2> QED BY <2>1, <2>2 DEF Fetch
<1> QED BY <1>3, <1>4, <1>5, <1>6 DEF Fetch, TypeInv, TypeOK, db, streams, history

LEMMA WorkType ==
  ASSUME TypeInv, NEW w \in Workers, Work(w)
  PROVE  TypeInv'
<1> USE DEF TypeInv, db, streams, history
<1>0. job[w] \in Job
  BY DEF TypeOK
<1>1. CASE InsertResult(w)
  <2>1. results' \subseteq [at: Nat, status: Observed]
    BY <1>0, <1>1 DEF InsertResult, TypeOK, Job
  <2>2. uptime' \in [total: Nat, up: Nat]
    BY <1>1 DEF InsertResult, CountCheck, TypeOK
  <2>3. pc' \in [Workers -> Steps] /\ job' \in [Workers -> Job]
    BY <1>1, GotoType, DoneType DEF InsertResult, TypeOK, Steps
  <2> QED BY <1>1, <2>1, <2>2, <2>3 DEF InsertResult, TypeOK, TaskBudget
<1>2. CASE SnapshotStatus(w)
  <2>1. job' = [job EXCEPT ![w] = [job[w] EXCEPT !.prev = status]]
    BY <1>2 DEF SnapshotStatus
  <2>2. job' \in [Workers -> Job]
    BY <1>0, <2>1, JobLocals DEF TypeOK
  <2>3. pc' \in [Workers -> Steps]
    BY <1>2, GotoType DEF SnapshotStatus, Steps
  <2> QED BY <1>2, <2>2, <2>3 DEF SnapshotStatus, TypeOK, TaskBudget
<1>3. CASE UpdateStatus(w)
  <2>1. status' \in Observed \cup {"unknown"}
    BY <1>0, <1>3 DEF UpdateStatus, TypeOK, Job
  <2>2. pc' \in [Workers -> Steps]
    BY <1>3, GotoType DEF UpdateStatus, AfterStatus, Steps
  <2> QED BY <1>3, <2>1, <2>2 DEF UpdateStatus, TypeOK, TaskBudget
<1>4. CASE CheckFailures(w) \/ CheckCooldownAndMaintenance(w)
  <2>1. pc' \in [Workers -> Steps]
    BY <1>4, GotoType DEF CheckFailures, CheckCooldownAndMaintenance, Steps
  <2>2. raced' \subseteq Workers
    BY <1>4 DEF CheckFailures, CheckCooldownAndMaintenance, TypeOK
  <2> QED BY <1>4, <2>1, <2>2 DEF CheckFailures, CheckCooldownAndMaintenance, TypeOK, TaskBudget
<1>5. CASE CreateAuto(w)
  <2>1. incidents' \in Seq(Incident)
    BY <1>5, IncidentAppend DEF CreateAuto, TypeOK, States
  <2>2. job' \in [Workers -> Job]
    <3>1. CASE UNCHANGED job
      BY <3>1 DEF TypeOK
    <3>2. CASE job' = [job EXCEPT ![w].incident = Len(incidents')]
      <4>1. job' = [job EXCEPT ![w] = [job[w] EXCEPT !.incident = Len(incidents')]]
        BY <3>2
      <4> QED BY <1>0, <2>1, <4>1, JobLocals DEF TypeOK
    <3> QED BY <1>5, <3>1, <3>2 DEF CreateAuto
  <2>3. pc' \in [Workers -> Steps]
    BY <1>5, GotoType DEF CreateAuto, Steps
  <2> QED BY <1>5, <2>1, <2>2, <2>3 DEF CreateAuto, TypeOK, TaskBudget
<1>6. CASE GetOpen(w)
  <2>1. job' \in [Workers -> Job]
    <3>1. CASE UNCHANGED job
      BY <3>1 DEF TypeOK
    <3>2. ASSUME NEW i \in DOMAIN incidents, job' = [job EXCEPT ![w].incident = i]
          PROVE  job' \in [Workers -> Job]
      <4>1. job' = [job EXCEPT ![w] = [job[w] EXCEPT !.incident = i]]
        BY <3>2
      <4>2. i \in Nat
        BY DEF TypeOK
      <4> QED BY <1>0, <4>1, <4>2, JobLocals DEF TypeOK
    <3> QED BY <1>6, <3>1, <3>2 DEF GetOpen
  <2>2. pc' \in [Workers -> Steps]
    BY <1>6, GotoType DEF GetOpen, Steps
  <2> QED BY <1>6, <2>1, <2>2 DEF GetOpen, TypeOK, TaskBudget
<1>7. CASE Resolve(w)
  <2>1. incidents' \in Seq(Incident)
    <3> DEFINE i == job[w].incident
               x == [incidents[i] EXCEPT !.resolvedAt = "recent", !.state = "resolved"]
    <3>1. incidents' = [incidents EXCEPT ![i] = x]
      BY <1>7 DEF Resolve, ResolveIncident
    <3>2. ASSUME i \in DOMAIN incidents PROVE x \in Incident
      <4>1. incidents[i] \in Incident
        BY <3>2 DEF TypeOK
      <4> QED BY <4>1, IncidentFields
    <3> HIDE DEF x
    <3> QED BY <3>1, <3>2, IncidentUpdate
  <2>2. pc' \in [Workers -> Steps]
    BY <1>7, GotoType DEF Resolve, Steps
  <2>3. raced' \subseteq Workers
    BY <1>7 DEF Resolve, ResolveIncident, Outdates, TypeOK
  <2> QED BY <1>7, <2>1, <2>2, <2>3 DEF Resolve, TypeOK, TaskBudget
<1>8. CASE PublishAlert(w)
  <2>1. AlertOf(w) \in Alert
    BY <1>0 DEF AlertOf, Alert, Observed, Job
  <2>2. alerts' \in Seq(Alert)
    <3>1. Append(alerts, AlertOf(w)) \in Seq(Alert)
      BY <2>1, AppendProperties DEF TypeOK
    <3> QED BY <1>8, <3>1 DEF PublishAlert, TypeOK
  <2>3. pc' \in [Workers -> Steps]
    BY <1>8, GotoType DEF PublishAlert, Steps
  <2>4. unsent' \subseteq Nat
    BY <1>0, <1>8 DEF PublishAlert, Unsent, TypeOK, Job
  <2> QED BY <1>8, <2>2, <2>3, <2>4 DEF PublishAlert, TypeOK, TaskBudget
<1>9. CASE Ack(w)
  <2>1. tasks' \in [Tasks -> Task] /\ TaskBudget'
    <3>1. CASE job[w].task \in Tasks
      <4> DEFINE t == job[w].task
      <4>1. tasks[t] \in Task
        BY <3>1 DEF TypeOK
      <4>2. [tasks[t] EXCEPT !.place = "gone"] \in Task
        BY <4>1 DEF Task
      <4>3. tasks' = [tasks EXCEPT ![t] = [tasks[t] EXCEPT !.place = "gone"]]
        BY <1>9 DEF Ack
      <4>4. [tasks[t] EXCEPT !.place = "gone"].place # "ready"
        BY <4>1 DEF Task
      <4> QED BY <4>2, <4>3, <4>4, TaskUpdate
    <3>2. CASE job[w].task \notin Tasks
      <4>1. UNCHANGED tasks
        BY <1>9, <3>2 DEF Ack, TypeOK
      <4> QED BY <4>1 DEF TypeOK, TaskBudget
    <3> QED BY <3>1, <3>2
  <2>2. pc' \in [Workers -> Steps] /\ job' \in [Workers -> Job]
    BY <1>9, DoneType DEF Ack
  <2> QED BY <1>9, <2>1, <2>2 DEF Ack, TypeOK
<1>10. CASE Nak(w)
  <2>1. tasks' \in [Tasks -> Task] /\ TaskBudget'
    BY <1>10, RedeliverType DEF Nak, TypeOK, TaskBudget
  <2>2. pc' \in [Workers -> Steps] /\ job' \in [Workers -> Job]
    BY <1>10, DoneType DEF Nak
  <2> QED BY <1>10, <2>1, <2>2 DEF Nak, TypeOK
<1> QED
  BY <1>1, <1>2, <1>3, <1>4, <1>5, <1>6, <1>7, <1>8, <1>9, <1>10 DEF Work

LEMMA TypeStep == TypeInv /\ [Next]_vars => TypeInv'
<1> SUFFICES ASSUME TypeInv, [Next]_vars PROVE TypeInv'
  OBVIOUS
<1> USE DEF TypeInv, db, streams, history
<1>1. ASSUME NEW t \in Tasks, AckWaitExpires(t) PROVE TypeInv'
  <2>1. tasks' \in [Tasks -> Task] /\ TaskBudget'
    BY <1>1, RedeliverType, TaskUpdate DEF AckWaitExpires
  <2> QED BY <1>1, <2>1 DEF AckWaitExpires, TypeOK
<1>2. ASSUME NEW w \in Workers, StatementFails(w) PROVE TypeInv'
  <2>1. pc' \in [Workers -> Steps]
    BY <1>2, GotoType DEF StatementFails, OnError, Steps
  <2> QED BY <1>2, <2>1 DEF StatementFails, TypeOK, TaskBudget
<1>3. ASSUME NEW w \in Workers, Crash(w) PROVE TypeInv'
  <2>1. unsent' \subseteq Nat
    BY <1>3 DEF Crash, Unsent, TypeOK, Job
  <2> QED BY <1>3, <2>1, DoneType DEF Crash, TypeOK, TaskBudget
<1>4. ASSUME NEW r \in Requests, NEW i \in DOMAIN incidents, NEW next \in States,
             BeginChangeState(r, i, next)
      PROVE TypeInv'
  <2>1. [pc |-> "change", incident |-> i, next |-> next] \in Request
    BY DEF Request, TypeOK
  <2> QED BY <1>4, <2>1 DEF BeginChangeState, TypeOK, TaskBudget
<1>5. ASSUME NEW r \in Requests, CommitChangeState(r) PROVE TypeInv'
  <2>1. req[r] \in Request
    BY DEF TypeOK
  <2>2. incidents' \in Seq(Incident)
    <3> DEFINE i == req[r].incident
               x == Moved(incidents[i], req[r].next)
    <3>1. incidents' = [incidents EXCEPT ![i] = x]
      BY <1>5 DEF CommitChangeState
    <3>2. ASSUME i \in DOMAIN incidents PROVE x \in Incident
      <4>1. incidents[i] \in Incident
        BY <3>2 DEF TypeOK
      <4>2. req[r].next \in States
        BY <2>1 DEF Request
      <4> QED BY <4>1, <4>2, IncidentFields
    <3> HIDE DEF x
    <3> QED BY <3>1, <3>2, IncidentUpdate
  <2>3. raced' \subseteq Workers
    BY <1>5 DEF CommitChangeState, Outdates, TypeOK
  <2> QED BY <1>5, <2>2, <2>3, IdleType DEF CommitChangeState, TypeOK, TaskBudget
<1>6. ASSUME NEW r \in Requests, BeginManualIncident(r) PROVE TypeInv'
  <2>1. req[r] \in Request
    BY DEF TypeOK
  <2>2. [req[r] EXCEPT !.pc = "create"] \in Request
    BY <2>1 DEF Request
  <2>3. req' = [req EXCEPT ![r] = [req[r] EXCEPT !.pc = "create"]]
    BY <1>6 DEF BeginManualIncident
  <2> QED BY <1>6, <2>2, <2>3 DEF BeginManualIncident, TypeOK, TaskBudget
<1>7. ASSUME NEW r \in Requests, CommitManualIncident(r) PROVE TypeInv'
  <2>1. incidents' \in Seq(Incident)
    BY <1>7, IncidentAppend DEF CommitManualIncident, States
  <2> QED BY <1>7, <2>1, IdleType DEF CommitManualIncident, TypeOK, TaskBudget
<1>8. ASSUME NEW r \in Requests, RollBack(r) PROVE TypeInv'
  BY <1>8, IdleType DEF RollBack, TypeOK, TaskBudget
<1>9. CASE DeleteMonitor
  BY <1>9 DEF DeleteMonitor, TypeOK, TaskBudget
<1>10. ASSUME NEW i \in DOMAIN incidents, CooldownElapses(i) PROVE TypeInv'
  <2>1. incidents' \in Seq(Incident)
    <3> DEFINE x == [incidents[i] EXCEPT !.resolvedAt = "past"]
    <3>1. incidents[i] \in Incident
      BY DEF TypeOK
    <3>2. x \in Incident
      BY <3>1, IncidentFields
    <3>3. incidents' = [incidents EXCEPT ![i] = x]
      BY <1>10 DEF CooldownElapses
    <3> HIDE DEF x
    <3> QED BY <3>2, <3>3, IncidentUpdate
  <2> QED BY <1>10, <2>1 DEF CooldownElapses, TypeOK, TaskBudget
<1>11. ASSUME NEW cutoff, DeleteByPlan(cutoff) PROVE TypeInv'
  BY <1>11 DEF DeleteByPlan, TypeOK, TaskBudget
<1>12. CASE UNCHANGED vars
  BY <1>12 DEF vars, TypeOK, TaskBudget
<1> QED
  BY <1>1, <1>2, <1>3, <1>4, <1>5, <1>6, <1>7, <1>8, <1>9, <1>10, <1>11, <1>12,
     FetchType, WorkType DEF Next

\* Every reachable state is well typed: in particular no task is delivered more
\* than MaxDeliver times, whatever is redelivered, Nak'd or answered late.
THEOREM TypeCorrect == Spec => []TypeOK
<1>1. TypeInv => TypeOK
  BY DEF TypeInv
<1> QED
  BY InitType, TypeStep, <1>1, PTL DEF Spec

-----------------------------------------------------------------------------
(* How a step may change the incidents table: rows are added, never removed; *)
(* the kind of a row stays; a resolved row stays resolved.                   *)

Advance ==
  /\ DOMAIN incidents \subseteq DOMAIN incidents'
  /\ \A i \in DOMAIN incidents :
       /\ incidents'[i].kind = incidents[i].kind
       /\ ~Open(i) => incidents'[i].resolvedAt # "null"

LEMMA AdvanceUnchanged ==
  ASSUME UNCHANGED incidents
  PROVE  Advance /\ (Table => Table')
BY DEF Advance, Open, Table, OneOpenIncident, ResolvedHasTime

\* An INSERT that the unique index lets through.
LEMMA AdvanceCreate ==
  ASSUME TypeOK, Table, ~IncidentExists,
         NEW kind \in {"auto", "manual"}, NEW posted \in States \cup {"none"},
         CreateIncident(kind, posted)
  PROVE  /\ Advance
         /\ Table'
         /\ DOMAIN incidents' = DOMAIN incidents \cup {Len(incidents')}
         /\ Len(incidents') \notin DOMAIN incidents
         /\ incidents'[Len(incidents')].kind = kind
<1> DEFINE x == [kind |-> kind, state |-> "investigating", resolvedAt |-> "null", posted |-> posted]
<1>1. x \in Incident
  BY DEF Incident, States
<1>2. incidents \in Seq(Incident) /\ incidents' = Append(incidents, x)
  BY DEF TypeOK, CreateIncident
<1>3. x.kind = kind /\ x.state # "resolved"
  OBVIOUS
<1> HIDE DEF x
<1>4. /\ incidents' \in Seq(Incident)
      /\ Len(incidents') = Len(incidents) + 1
      /\ \A i \in 1..Len(incidents) : incidents'[i] = incidents[i]
      /\ incidents'[Len(incidents) + 1] = x
  BY <1>1, <1>2, AppendProperties
<1>5. /\ DOMAIN incidents = 1..Len(incidents)
      /\ DOMAIN incidents' = 1..(Len(incidents) + 1)
      /\ Len(incidents) \in Nat
  BY <1>2, <1>4
<1>6. Advance
  BY <1>4, <1>5 DEF Advance, Open
<1>7. Table'
  BY <1>3, <1>4, <1>5 DEF Table, OneOpenIncident, ResolvedHasTime, IncidentExists, Open
<1> QED BY <1>3, <1>4, <1>5, <1>6, <1>7

\* An UPDATE of row i that keeps its kind and never clears resolved_at.
LEMMA AdvanceUpdate ==
  ASSUME TypeOK, Table, NEW i \in DOMAIN incidents, NEW x \in Incident,
         incidents' = [incidents EXCEPT ![i] = x],
         x.kind = incidents[i].kind,
         x.resolvedAt = "null" => Open(i),
         x.state = "resolved" => x.resolvedAt # "null"
  PROVE  Advance /\ Table' /\ DOMAIN incidents' = DOMAIN incidents
BY IncidentUpdate DEF Advance, Open, Table, OneOpenIncident, ResolvedHasTime

-----------------------------------------------------------------------------
(* The alerts and the references survive every step that advances the table. *)

LEMMA ToldKept ==
  ASSUME Told, Advance, UNCHANGED alerts
  PROVE  Told'
BY DEF Told, AlertRefs, DownAnnouncedOnce, RecoveryAnnouncedOnlyResolved, Advance, Open

LEMMA RequestsKept ==
  ASSUME RequestRefs, Advance, UNCHANGED req
  PROVE  RequestRefs'
BY DEF RequestRefs, Advance

LEMMA WorkersKept ==
  ASSUME TypeOK, WorkerRefs, Advance, UNCHANGED <<alerts, pc, job>>
  PROVE  WorkerRefs'
BY DEF WorkerRefs, Advance, Open, Untold

\* Worker w moves to a step other than alertDown; the others stay.
LEMMA WorkerMoves ==
  ASSUME TypeOK, WorkerRefs, Advance, UNCHANGED alerts,
         NEW w \in Workers, NEW step \in Steps, Goto(w, step),
         \A v \in Workers \ {w} : job'[v] = job[v],
         step # "alertDown",
         step # "idle" => job'[w].task \in Tasks,
         step \in {"resolve", "alertUp"} => job'[w].incident \in DOMAIN incidents',
         step = "alertUp" => incidents'[job'[w].incident].resolvedAt # "null"
  PROVE  WorkerRefs'
<1>1. pc'[w] = step /\ \A v \in Workers \ {w} : pc'[v] = pc[v]
  BY DEF Goto, TypeOK
<1> QED BY <1>1 DEF WorkerRefs, Advance, Open, Untold

-----------------------------------------------------------------------------
LEMMA InitInv == Init => IInv
<1> SUFFICES ASSUME Init PROVE IInv
  OBVIOUS
<1>1. TypeInv
  BY InitType
<1>2. Table /\ Told
  BY DEF Init, Table, OneOpenIncident, ResolvedHasTime, Told, AlertRefs, DownAnnouncedOnce,
     RecoveryAnnouncedOnlyResolved
<1>3. WorkerRefs /\ RequestRefs
  BY DEF Init, WorkerRefs, RequestRefs, NoRequest
<1> QED BY <1>1, <1>2, <1>3 DEF IInv

\* A worker that changes neither table nor stream keeps the invariant if what it
\* now refers to exists.
LEMMA LocalStep ==
  ASSUME IInv, TypeInv', UNCHANGED <<incidents, alerts, req>>,
         NEW w \in Workers, NEW step \in Steps, Goto(w, step),
         \A v \in Workers \ {w} : job'[v] = job[v],
         step \notin {"alertDown", "alertUp"},
         step # "idle" => job'[w].task \in Tasks,
         step = "resolve" => job'[w].incident \in DOMAIN incidents
  PROVE  IInv'
<1>1. Advance /\ Table'
  BY AdvanceUnchanged DEF IInv
<1>2. Told' /\ RequestRefs'
  BY <1>1, ToldKept, RequestsKept DEF IInv
<1>3. WorkerRefs'
  BY <1>1, WorkerMoves DEF IInv, TypeInv
<1> QED BY <1>1, <1>2, <1>3 DEF IInv

LEMMA CreateAutoInv ==
  ASSUME IInv, TypeInv', NEW w \in Workers, CreateAuto(w)
  PROVE  IInv'
<1>0. job[w] \in Job /\ job[w].task \in Tasks
  BY DEF IInv, TypeInv, TypeOK, WorkerRefs, CreateAuto
<1>1. CASE IncidentExists
  <2>1. Goto(w, "ack") /\ UNCHANGED <<incidents, job, alerts, req>>
    BY <1>1 DEF CreateAuto, streams
  <2> QED BY <1>0, <2>1, LocalStep DEF Steps
<1>2. CASE ~IncidentExists
  <2>0. PICK n : n = Len(incidents')
    OBVIOUS
  <2>1. /\ CreateIncident("auto", "none")
        /\ job' = [job EXCEPT ![w].incident = n]
        /\ Goto(w, "alertDown")
        /\ UNCHANGED <<alerts, req>>
    BY <1>2, <2>0 DEF CreateAuto, streams
  <2>2. /\ Advance /\ Table'
        /\ DOMAIN incidents' = DOMAIN incidents \cup {n}
        /\ n \notin DOMAIN incidents
        /\ incidents'[n].kind = "auto"
    BY <1>2, <2>0, <2>1, AdvanceCreate DEF IInv, TypeInv
  <2>3. Told' /\ RequestRefs'
    BY <2>1, <2>2, ToldKept, RequestsKept DEF IInv
  <2>4. /\ pc'[w] = "alertDown" /\ job'[w].incident = n /\ job'[w].task \in Tasks
        /\ \A v \in Workers \ {w} : pc'[v] = pc[v] /\ job'[v] = job[v]
    BY <1>0, <2>1 DEF Goto, IInv, TypeInv, TypeOK, Job
  <2>5. Untold(n)'
    BY <2>1, <2>2 DEF Untold, IInv, Told, AlertRefs
  <2>6. WorkerRefs'
    <3>1. ASSUME NEW v \in Workers \ {w}
          PROVE  /\ pc'[v] # "idle" => job'[v].task \in Tasks
                 /\ pc'[v] \in {"alertDown", "resolve", "alertUp"} =>
                      job'[v].incident \in DOMAIN incidents'
                 /\ pc'[v] = "alertUp" => incidents'[job'[v].incident].resolvedAt # "null"
                 /\ pc'[v] = "alertDown" =>
                      /\ incidents'[job'[v].incident].kind = "auto"
                      /\ Untold(job[v].incident)'
                      /\ job'[v].incident # n
      BY <2>1, <2>2, <2>4 DEF IInv, WorkerRefs, Advance, Open, Untold
    <3> QED BY <2>1, <2>2, <2>4, <2>5, <3>1 DEF IInv, WorkerRefs, Open, Untold
  <2> QED BY <2>2, <2>3, <2>6 DEF IInv
<1> QED BY <1>1, <1>2

LEMMA PublishAlertInv ==
  ASSUME IInv, TypeInv', NEW w \in Workers, PublishAlert(w)
  PROVE  IInv'
<1> DEFINE i == job[w].incident
<1>0. /\ UNCHANGED <<incidents, job, req>>
      /\ pc[w] \in {"alertDown", "alertUp"}
      /\ job[w].task \in Tasks
      /\ i \in DOMAIN incidents
  BY DEF PublishAlert, db, IInv, WorkerRefs
<1>1. PICK step \in {"ack", "nak"} : Goto(w, step)
  BY DEF PublishAlert
<1>2. CASE UNCHANGED alerts
  BY <1>0, <1>1, <1>2, LocalStep DEF Steps
<1>3. CASE alerts' = Append(alerts, AlertOf(w))
  <2>1. AlertOf(w) \in Alert /\ alerts \in Seq(Alert)
    BY DEF AlertOf, Alert, Observed, Job, IInv, TypeInv, TypeOK
  <2>2. AlertOf(w).incident = i /\ AlertOf(w).event = IF pc[w] = "alertDown" THEN "down" ELSE "up"
    BY DEF AlertOf
  <2>3. /\ DOMAIN alerts' = DOMAIN alerts \cup {Len(alerts) + 1}
        /\ \A a \in DOMAIN alerts : alerts'[a] = alerts[a]
        /\ alerts'[Len(alerts) + 1] = AlertOf(w)
    <3>1. /\ alerts' \in Seq(Alert)
          /\ Len(alerts') = Len(alerts) + 1
          /\ \A a \in 1..Len(alerts) : alerts'[a] = alerts[a]
          /\ alerts'[Len(alerts) + 1] = AlertOf(w)
      BY <1>3, <2>1, AppendProperties
    <3> QED BY <2>1, <3>1
  <2>4. Advance /\ Table'
    BY <1>0, AdvanceUnchanged DEF IInv
  <2>5. RequestRefs'
    BY <1>0, <2>4, RequestsKept DEF IInv
  <2> HIDE DEF i
  <2>6. /\ pc[w] = "alertDown" => incidents[i].kind = "auto" /\ Untold(i)
        /\ pc[w] = "alertUp" => ~Open(i)
        /\ \A v \in Workers : pc[v] = "alertDown" /\ pc[w] = "alertDown" /\ v # w =>
              job[v].incident # i
    BY DEF IInv, WorkerRefs, i
  <2>7. AlertRefs' /\ RecoveryAnnouncedOnlyResolved'
    BY <1>0, <2>2, <2>3, <2>6 DEF IInv, Told, AlertRefs, RecoveryAnnouncedOnlyResolved, Open
  <2>8. DownAnnouncedOnce'
    BY <1>0, <2>2, <2>3, <2>6 DEF IInv, Told, DownAnnouncedOnce, Untold
  <2>9. pc'[w] = step /\ \A v \in Workers \ {w} : pc'[v] = pc[v]
    BY <1>1 DEF Goto, IInv, TypeInv, TypeOK
  <2>10. WorkerRefs'
    <3>1. ASSUME NEW v \in Workers, pc'[v] = "alertDown" PROVE Untold(job[v].incident)'
      BY <1>0, <2>2, <2>3, <2>6, <2>9, <3>1 DEF Untold, IInv, WorkerRefs
    <3> QED BY <1>0, <2>9, <3>1 DEF IInv, WorkerRefs, Open, Untold
  <2> QED BY <2>4, <2>5, <2>7, <2>8, <2>10 DEF IInv, Told
<1> QED BY <1>2, <1>3 DEF PublishAlert

LEMMA ResolveAdvances ==
  ASSUME IInv, NEW w \in Workers, Resolve(w)
  PROVE  /\ Advance /\ Table' /\ DOMAIN incidents' = DOMAIN incidents
         /\ job[w].incident \in DOMAIN incidents
         /\ incidents'[job[w].incident].resolvedAt = "recent"
<1> DEFINE i == job[w].incident
           x == [incidents[i] EXCEPT !.resolvedAt = "recent", !.state = "resolved"]
<1>0. i \in DOMAIN incidents /\ incidents' = [incidents EXCEPT ![i] = x]
  BY DEF Resolve, ResolveIncident, IInv, WorkerRefs
<1>1. incidents[i] \in Incident
  BY <1>0 DEF IInv, TypeInv, TypeOK
<1>2. x \in Incident /\ x.kind = incidents[i].kind /\ x.resolvedAt = "recent"
  BY <1>1, IncidentFields DEF Incident
<1> HIDE DEF x
<1>3. Advance /\ Table' /\ DOMAIN incidents' = DOMAIN incidents
  BY <1>0, <1>2, AdvanceUpdate DEF IInv, TypeInv
<1>4. incidents'[i] = x
  BY <1>0, <1>2, IncidentUpdate DEF IInv, TypeInv
<1> QED BY <1>0, <1>2, <1>3, <1>4

LEMMA ResolveInv ==
  ASSUME IInv, TypeInv', NEW w \in Workers, Resolve(w)
  PROVE  IInv'
<1>0. UNCHANGED <<alerts, job, req>> /\ Goto(w, "alertUp") /\ job[w].task \in Tasks
  BY DEF Resolve, streams, IInv, WorkerRefs
<1>1. /\ Advance /\ Table' /\ DOMAIN incidents' = DOMAIN incidents
      /\ job[w].incident \in DOMAIN incidents
      /\ incidents'[job[w].incident].resolvedAt = "recent"
  BY ResolveAdvances
<1>2. Told' /\ RequestRefs'
  BY <1>0, <1>1, ToldKept, RequestsKept DEF IInv
<1>3. WorkerRefs'
  BY <1>0, <1>1, WorkerMoves DEF IInv, TypeInv, Steps
<1> QED BY <1>1, <1>2, <1>3 DEF IInv

\* The other steps of a worker touch neither the table nor the stream.
LEMMA WorkInv ==
  ASSUME IInv, TypeInv', NEW w \in Workers, Work(w)
  PROVE  IInv'
<1>0. job[w] \in Job /\ (pc[w] # "idle" => job[w].task \in Tasks)
  BY DEF IInv, TypeInv, TypeOK, WorkerRefs
<1>1. CASE InsertResult(w)
  <2>1. PICK step \in {"snapshot", "idle"} :
          /\ Goto(w, step)
          /\ \A v \in Workers \ {w} : job'[v] = job[v]
          /\ step = "snapshot" => UNCHANGED job
    BY <1>1 DEF InsertResult, Done, IInv, TypeInv, TypeOK
  <2> QED BY <1>0, <1>1, <2>1, LocalStep DEF InsertResult, streams, Steps
<1>2. CASE SnapshotStatus(w)
  <2>1. job'[w].task = job[w].task /\ \A v \in Workers \ {w} : job'[v] = job[v]
    BY <1>0, <1>2 DEF SnapshotStatus, IInv, TypeInv, TypeOK, Job
  <2> QED BY <1>0, <1>2, <2>1, LocalStep DEF SnapshotStatus, db, streams, Steps
<1>3. CASE UpdateStatus(w)
  <2>1. PICK step \in {"failures", "getOpen", "ack", "nak"} : Goto(w, step)
    BY <1>3 DEF UpdateStatus, AfterStatus
  <2> QED BY <1>0, <1>3, <2>1, LocalStep DEF UpdateStatus, streams, Steps
<1>4. CASE CheckFailures(w) \/ CheckCooldownAndMaintenance(w)
  <2>1. PICK step \in {"cooldown", "create", "ack"} : Goto(w, step)
    BY <1>4 DEF CheckFailures, CheckCooldownAndMaintenance
  <2>2. pc[w] # "idle" /\ UNCHANGED <<incidents, alerts, req, job>>
    BY <1>4 DEF CheckFailures, CheckCooldownAndMaintenance, db, streams
  <2> QED BY <1>0, <2>1, <2>2, LocalStep DEF Steps
<1>5. CASE GetOpen(w)
  <2>1. CASE UNCHANGED job /\ Goto(w, "ack")
    BY <1>0, <1>5, <2>1, LocalStep DEF GetOpen, db, streams, Steps
  <2>2. ASSUME NEW i \in DOMAIN incidents, Goto(w, "resolve"),
               job' = [job EXCEPT ![w].incident = i]
        PROVE  IInv'
    <3>1. /\ job'[w].task = job[w].task /\ job'[w].incident = i
          /\ \A v \in Workers \ {w} : job'[v] = job[v]
      BY <1>0, <2>2 DEF IInv, TypeInv, TypeOK, Job
    <3> QED BY <1>0, <1>5, <2>2, <3>1, LocalStep DEF GetOpen, db, streams, Steps
  <2> QED BY <1>5, <2>1, <2>2 DEF GetOpen
<1>6. CASE Ack(w) \/ Nak(w)
  <2>1. Goto(w, "idle") /\ \A v \in Workers \ {w} : job'[v] = job[v]
    BY <1>6 DEF Ack, Nak, Done, IInv, TypeInv, TypeOK
  <2> QED BY <1>6, <2>1, LocalStep DEF Ack, Nak, db, Steps
<1> QED
  BY <1>1, <1>2, <1>3, <1>4, <1>5, <1>6, CreateAutoInv, ResolveInv, PublishAlertInv DEF Work

\* What a change of state does to the columns of an incident.
LEMMA MovedFields ==
  ASSUME NEW x \in Incident, NEW next \in States
  PROVE  /\ Moved(x, next) \in Incident
         /\ Moved(x, next).kind = x.kind
         /\ Moved(x, next).state = next
         /\ Moved(x, next).resolvedAt = IF next = "resolved" THEN "recent" ELSE x.resolvedAt
<1>1. Moved(x, next) \in Incident
  BY IncidentFields
<1>2. DOMAIN x = {"kind", "state", "resolvedAt", "posted"}
  BY DEF Incident
<1> QED BY <1>1, <1>2 DEF Moved

LEMMA FetchInv ==
  ASSUME IInv, TypeInv', NEW w \in Workers, NEW t \in Tasks, Fetch(w, t)
  PROVE  IInv'
<1>1. PICK step \in {"insert", "nak"} : Goto(w, step)
  BY DEF Fetch
<1>2. job'[w].task = t /\ \A v \in Workers \ {w} : job'[v] = job[v]
  <2>1. job \in [Workers -> Job]
    BY DEF IInv, TypeInv, TypeOK
  <2>2. \/ \E r \in Observed :
             job' = [job EXCEPT ![w] = [task |-> t, at |-> clock', result |-> r,
                                        prev |-> "unknown", incident |-> 0]]
        \/ job' = [job EXCEPT ![w].task = t]
    BY DEF Fetch
  <2> QED BY <2>1, <2>2 DEF Job
<1>3. UNCHANGED <<incidents, alerts, req>>
  BY DEF Fetch, db
<1> QED BY <1>1, <1>2, <1>3, LocalStep DEF Steps

\* A step of the API, of the stream or of the environment: it advances the
\* table and leaves stream and workers alone.
LEMMA OutsideStep ==
  ASSUME IInv, TypeInv', Advance, Table', UNCHANGED <<alerts, pc, job>>, RequestRefs'
  PROVE  IInv'
BY ToldKept, WorkersKept DEF IInv, TypeInv

LEMMA CommitChangeAdvances ==
  ASSUME IInv, NEW r \in Requests, CommitChangeState(r)
  PROVE  Advance /\ Table' /\ DOMAIN incidents' = DOMAIN incidents
<1> DEFINE i == req[r].incident
           x == Moved(incidents[i], req[r].next)
<1>0. /\ i \in DOMAIN incidents
      /\ incidents' = [incidents EXCEPT ![i] = x]
      /\ req[r] \in Request
  BY DEF CommitChangeState, IInv, RequestRefs, TypeInv, TypeOK
<1>1. incidents[i] \in Incident /\ req[r].next \in States
  BY <1>0 DEF IInv, TypeInv, TypeOK, Request
<1>2. /\ x \in Incident /\ x.kind = incidents[i].kind
      /\ x.state = req[r].next
      /\ x.resolvedAt = IF req[r].next = "resolved" THEN "recent" ELSE incidents[i].resolvedAt
  BY <1>1, MovedFields
<1> HIDE DEF x
<1>3. x.resolvedAt = "null" => Open(i)
  BY <1>2 DEF Open
<1> QED BY <1>0, <1>2, <1>3, AdvanceUpdate DEF IInv, TypeInv

LEMMA CommitChangeInv ==
  ASSUME IInv, TypeInv', NEW r \in Requests, CommitChangeState(r)
  PROVE  IInv'
<1>1. Advance /\ Table' /\ DOMAIN incidents' = DOMAIN incidents
  BY CommitChangeAdvances
<1>2. Idle(r) /\ UNCHANGED <<alerts, pc, job>>
  BY DEF CommitChangeState, streams
<1>3. RequestRefs'
  BY <1>1, <1>2 DEF RequestRefs, Idle, NoRequest, IInv, TypeInv, TypeOK
<1> QED BY <1>1, <1>2, <1>3, OutsideStep

LEMMA CooldownAdvances ==
  ASSUME IInv, NEW i \in DOMAIN incidents, CooldownElapses(i)
  PROVE  Advance /\ Table' /\ DOMAIN incidents' = DOMAIN incidents
<1> DEFINE x == [incidents[i] EXCEPT !.resolvedAt = "past"]
<1>1. incidents[i] \in Incident
  BY DEF IInv, TypeInv, TypeOK
<1>2. x \in Incident /\ x.kind = incidents[i].kind /\ x.resolvedAt = "past"
  BY <1>1, IncidentFields DEF Incident
<1>3. incidents' = [incidents EXCEPT ![i] = x]
  BY DEF CooldownElapses
<1> HIDE DEF x
<1> QED BY <1>2, <1>3, AdvanceUpdate DEF IInv, TypeInv

LEMMA CooldownInv ==
  ASSUME IInv, TypeInv', NEW i \in DOMAIN incidents, CooldownElapses(i)
  PROVE  IInv'
<1>1. Advance /\ Table'
  BY CooldownAdvances
<1>2. UNCHANGED <<alerts, pc, job, req>>
  BY DEF CooldownElapses, streams
<1>3. RequestRefs'
  BY <1>1, <1>2, RequestsKept DEF IInv
<1> QED BY <1>1, <1>2, <1>3, OutsideStep

LEMMA InvStep == IInv /\ [Next]_vars => IInv'
<1> SUFFICES ASSUME IInv, [Next]_vars PROVE IInv'
  OBVIOUS
<1>0. TypeInv'
  BY TypeStep DEF IInv
<1>1. ASSUME UNCHANGED <<incidents, alerts, pc, job>>, RequestRefs' PROVE IInv'
  BY <1>0, <1>1, AdvanceUnchanged, OutsideStep DEF IInv
<1>2. ASSUME NEW t \in Tasks, AckWaitExpires(t) PROVE IInv'
  BY <1>1, <1>2 DEF AckWaitExpires, db, IInv, RequestRefs
<1>3. ASSUME NEW w \in Workers, StatementFails(w) PROVE IInv'
  <2>1. PICK step \in {"ack", "nak"} : Goto(w, step)
    BY <1>3 DEF StatementFails, OnError
  <2>2. job[w].task \in Tasks
    BY <1>3 DEF StatementFails, IInv, WorkerRefs
  <2> QED BY <1>0, <1>3, <2>1, <2>2, LocalStep DEF StatementFails, db, streams, Steps
<1>4. ASSUME NEW w \in Workers, Crash(w) PROVE IInv'
  <2>1. Goto(w, "idle") /\ \A v \in Workers \ {w} : job'[v] = job[v]
    BY <1>4 DEF Crash, Done, IInv, TypeInv, TypeOK
  <2> QED BY <1>0, <1>4, <2>1, LocalStep DEF Crash, db, streams, Steps
<1>5. ASSUME NEW r \in Requests, NEW i \in DOMAIN incidents, NEW next \in States,
             BeginChangeState(r, i, next)
      PROVE IInv'
  <2>1. RequestRefs'
    BY <1>5 DEF BeginChangeState, db, IInv, RequestRefs, TypeInv, TypeOK
  <2> QED BY <1>1, <1>5, <2>1 DEF BeginChangeState, db, streams
<1>6. ASSUME NEW r \in Requests, BeginManualIncident(r) PROVE IInv'
  <2>1. req[r] \in Request
    BY DEF IInv, TypeInv, TypeOK
  <2>2. RequestRefs'
    BY <1>6, <2>1 DEF BeginManualIncident, db, IInv, RequestRefs, TypeInv, TypeOK, Request
  <2> QED BY <1>1, <1>6, <2>2 DEF BeginManualIncident, db, streams
<1>7. ASSUME NEW r \in Requests, CommitManualIncident(r) PROVE IInv'
  <2>1. Advance /\ Table'
    BY <1>7, AdvanceCreate DEF CommitManualIncident, IInv, TypeInv, States
  <2>2. RequestRefs'
    BY <1>7, <2>1 DEF CommitManualIncident, Idle, NoRequest, RequestRefs, Advance, IInv, TypeInv, TypeOK
  <2> QED BY <1>0, <1>7, <2>1, <2>2, OutsideStep DEF CommitManualIncident, streams
<1>8. ASSUME NEW r \in Requests, RollBack(r) PROVE IInv'
  <2>1. RequestRefs'
    BY <1>8 DEF RollBack, Idle, NoRequest, db, IInv, RequestRefs, TypeInv, TypeOK
  <2> QED BY <1>1, <1>8, <2>1 DEF RollBack, db, streams
<1>9. CASE DeleteMonitor
  BY <1>1, <1>9 DEF DeleteMonitor, streams, IInv, RequestRefs
<1>10. CASE UNCHANGED vars
  BY <1>1, <1>10 DEF vars, db, streams, IInv, RequestRefs
<1>11. ASSUME NEW cutoff, DeleteByPlan(cutoff) PROVE IInv'
  BY <1>1, <1>11 DEF DeleteByPlan, streams, IInv, RequestRefs
<1> QED
  BY <1>0, <1>2, <1>3, <1>4, <1>5, <1>6, <1>7, <1>8, <1>9, <1>10, <1>11,
     FetchInv, WorkInv, CommitChangeInv, CooldownInv DEF Next

LEMMA Invariance == Spec => []IInv
BY InitInv, InvStep, PTL DEF Spec

\* At most one incident of a monitor is open, for any number of workers and API
\* requests and any faults.
THEOREM OneOpenIncidentAlways == Spec => []OneOpenIncident
<1>1. IInv => OneOpenIncident
  BY DEF IInv, Table
<1> QED BY Invariance, <1>1, PTL

\* An incident shown as resolved carries a resolution time.
THEOREM ResolvedHasTimeAlways == Spec => []ResolvedHasTime
<1>1. IInv => ResolvedHasTime
  BY DEF IInv, Table
<1> QED BY Invariance, <1>1, PTL

\* No outage is announced twice although tasks are redelivered and handleDown
\* runs on every failed check.
THEOREM DownAnnouncedOnceAlways == Spec => []DownAnnouncedOnce
<1>1. IInv => DownAnnouncedOnce
  BY DEF IInv, Told
<1> QED BY Invariance, <1>1, PTL

\* A recovery is announced only for an incident that is, and stays, resolved.
THEOREM RecoveryAnnouncedOnlyResolvedAlways == Spec => []RecoveryAnnouncedOnlyResolved
<1>1. IInv => RecoveryAnnouncedOnlyResolved
  BY DEF IInv, Told
<1> QED BY Invariance, <1>1, PTL
-----------------------------------------------------------------------------
(* The hourly aggregate *)

Ups == {r \in EverStored : r.status = "up"}

\* UptimeCountsStoredChecks is kept by InsertResult only because the row is a
\* new one: a worker about to insert has a checked_at of its own.
Fresh ==
  /\ \A r \in EverStored : r.at <= clock
  /\ \A w \in Workers : pc[w] = "insert" =>
       /\ job[w].at <= clock
       /\ \A r \in EverStored : r.at # job[w].at
       /\ \A v \in Workers : pc[v] = "insert" /\ job[v].at = job[w].at => v = w

Counted == IsFiniteSet(EverStored) /\ Fresh /\ UptimeCountsStoredChecks

LEMMA CountedInit == Init => Counted
<1> SUFFICES ASSUME Init PROVE Counted
  OBVIOUS
<1>1. EverStored = {} /\ {r \in EverStored : r.status = "up"} = {}
  BY DEF Init, EverStored
<1>2. UptimeCountsStoredChecks
  BY <1>1, FS_EmptySet DEF Init, UptimeCountsStoredChecks
<1>3. Fresh
  BY <1>1 DEF Init, Fresh
<1> QED BY <1>1, <1>2, <1>3, FS_EmptySet DEF Counted

\* Steps that count nothing and send no worker to the insert.
LEMMA CountedKept ==
  ASSUME Counted, UNCHANGED <<EverStored, uptime, clock>>,
         \A w \in Workers : pc'[w] = "insert" => pc[w] = "insert" /\ job'[w].at = job[w].at
  PROVE  Counted'
BY DEF Counted, Fresh, UptimeCountsStoredChecks

\* The probe of a task starts later than every check stored or under way.
LEMMA CountedFetch ==
  ASSUME TypeInv, Counted, NEW w \in Workers, NEW t \in Tasks, Fetch(w, t)
  PROVE  Counted'
<1>1. UNCHANGED <<EverStored, uptime>>
  BY DEF Fetch, db, history, EverStored
<1>2. CASE UNCHANGED clock /\ Goto(w, "nak") /\ job' = [job EXCEPT ![w].task = t]
  <2>1. \A v \in Workers : pc'[v] = "insert" => pc[v] = "insert" /\ job'[v].at = job[v].at
    BY <1>2 DEF Goto, TypeInv, TypeOK
  <2> QED BY <1>1, <1>2, <2>1, CountedKept
<1>3. CASE clock' = clock + 1 /\ Goto(w, "insert") /\ \E r \in Observed :
             job' = [job EXCEPT ![w] = [task |-> t, at |-> clock', result |-> r,
                                        prev |-> "unknown", incident |-> 0]]
  <2>1. job'[w].at = clock + 1 /\ \A v \in Workers \ {w} : job'[v] = job[v] /\ pc'[v] = pc[v]
    BY <1>3 DEF Goto, TypeInv, TypeOK
  <2>2. clock \in Nat /\ \A r \in EverStored : r.at \in Nat
    BY DEF TypeInv, TypeOK, EverStored
  <2>3. \A v \in Workers : job[v].at \in Nat
    BY DEF TypeInv, TypeOK, Job
  <2>4. \A r \in EverStored : r.at <= clock' /\ r.at # clock'
    BY <1>3, <2>2 DEF Counted, Fresh
  <2>5. \A v \in Workers \ {w} : pc'[v] = "insert" => job'[v].at <= clock' /\ job'[v].at # clock'
    BY <1>3, <2>1, <2>2, <2>3 DEF Counted, Fresh
  <2>6. Fresh'
    BY <1>1, <1>3, <2>1, <2>2, <2>4, <2>5 DEF Counted, Fresh
  <2> QED BY <1>1, <2>6 DEF Counted, UptimeCountsStoredChecks
<1> QED BY <1>2, <1>3 DEF Fetch

\* The row is stored, and then counted or not.
LEMMA CountedInsert ==
  ASSUME TypeInv, Counted, NEW w \in Workers, InsertResult(w)
  PROVE  Counted'
<1> DEFINE row == [at |-> job[w].at, status |-> job[w].result]
<1>1. EverStored' = EverStored \cup {row} /\ row \notin EverStored /\ UNCHANGED clock
  BY DEF InsertResult, Counted, Fresh, EverStored, history
<1>2. IsFiniteSet(EverStored') /\ Cardinality(EverStored') = Cardinality(EverStored) + 1
  BY <1>1, FS_AddElement DEF Counted
<1>3. IsFiniteSet(Ups) /\ Cardinality(Ups) \in Nat /\ Cardinality(EverStored) \in Nat
  BY FS_Subset, FS_CardinalityType DEF Counted, Ups
<1>4. Cardinality(Ups') = Cardinality(Ups) + (IF job[w].result = "up" THEN 1 ELSE 0)
  <2>1. CASE job[w].result = "up"
    <3>1. Ups' = Ups \cup {row} /\ row \notin Ups
      BY <1>1, <2>1 DEF Ups
    <3> QED BY <1>3, <2>1, <3>1, FS_AddElement
  <2>2. CASE job[w].result # "up"
    <3>1. Ups' = Ups
      BY <1>1, <2>2 DEF Ups
    <3> QED BY <1>3, <2>2, <3>1
  <2> QED BY <2>1, <2>2
<1>5. uptime' = CountCheck(w) \/ uptime' = uptime
  BY DEF InsertResult
<1>6. UptimeCountsStoredChecks'
  <2>1. uptime.total \in Nat /\ uptime.up \in Nat
    BY DEF TypeInv, TypeOK
  <2>2. uptime.total <= Cardinality(EverStored) /\ uptime.up <= Cardinality(Ups)
    BY DEF Counted, UptimeCountsStoredChecks, Ups
  <2>3. uptime'.total <= Cardinality(EverStored') /\ uptime'.up <= Cardinality(Ups')
    BY <1>2, <1>3, <1>4, <1>5, <2>1, <2>2 DEF CountCheck
  <2> QED BY <2>3 DEF UptimeCountsStoredChecks, Ups
<1>7. Fresh'
  <2>1. pc'[w] # "insert" /\ \A v \in Workers \ {w} : pc'[v] = pc[v] /\ job'[v] = job[v]
    BY DEF InsertResult, Goto, Done, TypeInv, TypeOK
  <2>2. pc[w] = "insert" /\ row.at = job[w].at
    BY DEF InsertResult
  <2> HIDE DEF row
  <2> QED BY <1>1, <2>1, <2>2 DEF Counted, Fresh
<1> QED BY <1>2, <1>6, <1>7 DEF Counted

LEMMA CountedStep == TypeInv /\ Counted /\ [Next]_vars => Counted'
<1> SUFFICES ASSUME TypeInv, Counted, [Next]_vars PROVE Counted'
  OBVIOUS
<1>1. ASSUME UNCHANGED <<EverStored, uptime, clock, pc, job>> PROVE Counted'
  BY <1>1, CountedKept
<1>2. ASSUME UNCHANGED <<EverStored, uptime, clock>>, NEW w \in Workers,
             NEW step \in Steps \ {"insert"}, Goto(w, step),
             \A v \in Workers \ {w} : job'[v] = job[v]
      PROVE  Counted'
  <2>1. \A v \in Workers : pc'[v] = "insert" => pc[v] = "insert" /\ job'[v].at = job[v].at
    BY <1>2 DEF Goto, TypeInv, TypeOK
  <2> QED BY <1>2, <2>1, CountedKept
<1> USE DEF db, streams, history, EverStored
<1>3. ASSUME NEW w \in Workers, Work(w) PROVE Counted'
  <2>1. CASE SnapshotStatus(w)
    <3>1. \A v \in Workers \ {w} : job'[v] = job[v]
      BY <2>1 DEF SnapshotStatus, TypeInv, TypeOK
    <3> QED BY <1>2, <2>1, <3>1 DEF SnapshotStatus, Steps
  <2>2. CASE UpdateStatus(w)
    BY <1>2, <2>2 DEF UpdateStatus, AfterStatus, Steps
  <2>3. CASE CheckFailures(w) \/ CheckCooldownAndMaintenance(w)
    BY <1>2, <2>3 DEF CheckFailures, CheckCooldownAndMaintenance, Steps
  <2>4. CASE CreateAuto(w) \/ GetOpen(w)
    <3>1. \A v \in Workers \ {w} : job'[v] = job[v]
      BY <2>4 DEF CreateAuto, GetOpen, TypeInv, TypeOK
    <3> QED BY <1>2, <2>4, <3>1 DEF CreateAuto, GetOpen, Steps
  <2>5. CASE Resolve(w) \/ PublishAlert(w)
    BY <1>2, <2>5 DEF Resolve, PublishAlert, Steps
  <2>6. CASE Ack(w) \/ Nak(w)
    <3>1. Goto(w, "idle") /\ \A v \in Workers \ {w} : job'[v] = job[v]
      BY <2>6 DEF Ack, Nak, Done, TypeInv, TypeOK
    <3> QED BY <1>2, <2>6, <3>1 DEF Ack, Nak, Steps
  <2> QED BY <1>3, <2>1, <2>2, <2>3, <2>4, <2>5, <2>6, CountedInsert DEF Work
<1>4. ASSUME NEW w \in Workers, StatementFails(w) PROVE Counted'
  BY <1>2, <1>4 DEF StatementFails, OnError, Steps
<1>5. ASSUME NEW w \in Workers, Crash(w) PROVE Counted'
  <2>1. Goto(w, "idle") /\ \A v \in Workers \ {w} : job'[v] = job[v]
    BY <1>5 DEF Crash, Done, TypeInv, TypeOK
  <2> QED BY <1>2, <1>5, <2>1 DEF Crash, Steps
<1>6. ASSUME NEW r \in Requests,
             \/ \E i \in DOMAIN incidents, next \in States : BeginChangeState(r, i, next)
             \/ CommitChangeState(r) \/ BeginManualIncident(r) \/ CommitManualIncident(r)
             \/ RollBack(r)
      PROVE  Counted'
  BY <1>1, <1>6 DEF BeginChangeState, CommitChangeState, BeginManualIncident,
                    CommitManualIncident, RollBack
<1>7. CASE DeleteMonitor \/ UNCHANGED vars
  BY <1>1, <1>7 DEF DeleteMonitor, vars
<1>8. ASSUME NEW t \in Tasks, AckWaitExpires(t) PROVE Counted'
  BY <1>1, <1>8 DEF AckWaitExpires
<1>9. ASSUME NEW i \in DOMAIN incidents, CooldownElapses(i) PROVE Counted'
  BY <1>1, <1>9 DEF CooldownElapses
<1>10. ASSUME NEW cutoff, DeleteByPlan(cutoff) PROVE Counted'
  <2>1. UNCHANGED <<EverStored, uptime, clock, pc, job>>
    BY <1>10 DEF DeleteByPlan
  <2> QED BY <1>1, <2>1
<1> QED BY <1>3, <1>4, <1>5, <1>6, <1>7, <1>8, <1>9, <1>10, CountedFetch DEF Next

\* The hourly aggregate never counts a check, or an "up", that was not stored,
\* with redelivered tasks, crashes between row and aggregate, and retention
\* deleting the rows at any time.
THEOREM UptimeCountsStoredChecksAlways == Spec => []UptimeCountsStoredChecks
<1>1. Init => TypeInv /\ Counted
  BY InitType, CountedInit
<1>2. TypeInv /\ Counted /\ [Next]_vars => (TypeInv /\ Counted)'
  BY TypeStep, CountedStep
<1>3. TypeInv /\ Counted => UptimeCountsStoredChecks
  BY DEF Counted
<1> QED BY <1>1, <1>2, <1>3, PTL DEF Spec
-----------------------------------------------------------------------------
(* The fate of an announcement *)

\* AutoIncidentAnnounced is kept by the INSERT only because its id is new: an
\* announcement that was lost belongs to an incident in the table.
Fate == AutoIncidentAnnounced /\ unsent \subseteq DOMAIN incidents

\* Worker w, which is not announcing, moves; nothing is sent or lost.
LEMMA FateKept ==
  ASSUME Fate, NEW w \in Workers, pc[w] # "alertDown",
         \A v \in Workers \ {w} : pc'[v] = pc[v] /\ job'[v] = job[v],
         UNCHANGED <<alerts, unsent>>,
         DOMAIN incidents \subseteq DOMAIN incidents',
         \A i \in DOMAIN incidents' : incidents'[i].kind = "auto" =>
           \/ i \in DOMAIN incidents /\ incidents[i].kind = "auto"
           \/ pc'[w] = "alertDown" /\ job'[w].incident = i,
         pc'[w] = "alertDown" => job'[w].incident \notin unsent /\ ~Announced(job'[w].incident)
  PROVE  Fate'
<1>1. \A i : Announced(i)' <=> Announced(i)
  BY DEF Announced
<1>2. \A i : Announcing(i) => Announcing(i)'
  BY DEF Announcing
<1>3. \A i \in unsent : ~Announcing(i)'
  BY DEF Announcing, Fate, AutoIncidentAnnounced
<1>4. \A i : pc'[w] = "alertDown" /\ job'[w].incident = i => Announcing(i)'
  BY DEF Announcing
<1>5. \A i \in DOMAIN incidents' : incidents'[i].kind = "auto" =>
        Announced(i)' \/ Announcing(i)' \/ i \in unsent'
  BY <1>1, <1>2, <1>4 DEF Fate, AutoIncidentAnnounced
<1> QED BY <1>1, <1>3, <1>5 DEF Fate, AutoIncidentAnnounced

\* A step that leaves workers and stream alone and adds no automatic incident.
LEMMA FateOutside ==
  ASSUME Fate, UNCHANGED <<alerts, unsent, pc, job>>,
         DOMAIN incidents \subseteq DOMAIN incidents',
         \A i \in DOMAIN incidents' : incidents'[i].kind = "auto" =>
           i \in DOMAIN incidents /\ incidents[i].kind = "auto"
  PROVE  Fate'
<1>1. \A i : (Announced(i)' <=> Announced(i)) /\ (Announcing(i)' <=> Announcing(i))
  BY DEF Announced, Announcing
<1> QED BY <1>1 DEF Fate, AutoIncidentAnnounced

\* The one announcement of an incident is lost, and nobody else is making it.
LEMMA FateLost ==
  ASSUME IInv, Fate, UNCHANGED <<incidents, alerts>>,
         NEW w \in Workers, pc[w] = "alertDown", pc'[w] # "alertDown",
         \A v \in Workers \ {w} : pc'[v] = pc[v] /\ job'[v] = job[v],
         unsent' = unsent \cup {job[w].incident}
  PROVE  Fate'
<1>0. PICK i : i = job[w].incident
  OBVIOUS
<1>1. /\ i \in DOMAIN incidents /\ Untold(i)
      /\ \A v \in Workers : pc[v] = "alertDown" /\ job[v].incident = i => v = w
  BY <1>0 DEF IInv, WorkerRefs
<1>2. \A j : Announced(j)' <=> Announced(j)
  BY DEF Announced
<1>3. ~Announced(i)
  BY <1>1 DEF Announced, Untold
<1>4. ~Announcing(i)' /\ \A j : j # i => (Announcing(j)' <=> Announcing(j))
  BY <1>0, <1>1 DEF Announcing
<1> QED BY <1>0, <1>1, <1>2, <1>3, <1>4 DEF Fate, AutoIncidentAnnounced

LEMMA FateStored ==
  ASSUME IInv, Fate, NEW w \in Workers, pc[w] \in {"alertDown", "alertUp"},
         alerts' = Append(alerts, AlertOf(w)), UNCHANGED <<incidents, job, unsent>>,
         NEW step \in {"ack", "nak"}, Goto(w, step)
  PROVE  Fate'
<1>1. AlertOf(w) \in Alert /\ alerts \in Seq(Alert)
  BY DEF AlertOf, Alert, Observed, Job, IInv, TypeInv, TypeOK
<1>2. /\ DOMAIN alerts' = DOMAIN alerts \cup {Len(alerts) + 1}
      /\ \A a \in DOMAIN alerts : alerts'[a] = alerts[a]
      /\ alerts'[Len(alerts) + 1] = AlertOf(w)
  <2>1. /\ alerts' \in Seq(Alert)
        /\ Len(alerts') = Len(alerts) + 1
        /\ \A a \in 1..Len(alerts) : alerts'[a] = alerts[a]
        /\ alerts'[Len(alerts) + 1] = AlertOf(w)
    BY <1>1, AppendProperties
  <2> QED BY <1>1, <2>1
<1>3. pc'[w] # "alertDown" /\ \A v \in Workers \ {w} : pc'[v] = pc[v]
  BY DEF Goto, IInv, TypeInv, TypeOK
<1>4. \A i : Announced(i) => Announced(i)'
  BY <1>2 DEF Announced
<1>5. pc[w] = "alertDown" => Announced(job[w].incident)' /\ Announcing(job[w].incident)
  BY <1>2 DEF Announced, Announcing, AlertOf
<1>6. \A i : Announced(i)' => Announced(i) \/ (pc[w] = "alertDown" /\ i = job[w].incident)
  BY <1>2 DEF Announced, AlertOf
<1>7. \A i : Announcing(i) => Announcing(i)' \/ (pc[w] = "alertDown" /\ i = job[w].incident)
  BY <1>3 DEF Announcing
<1>8. \A i : Announcing(i)' => Announcing(i)
  BY <1>3 DEF Announcing
<1>9. \A i \in DOMAIN incidents : incidents[i].kind = "auto" =>
        Announced(i)' \/ Announcing(i)' \/ i \in unsent
  BY <1>4, <1>5, <1>7 DEF Fate, AutoIncidentAnnounced
<1>10. \A i \in unsent : ~Announced(i)' /\ ~Announcing(i)'
  BY <1>5, <1>6, <1>8 DEF Fate, AutoIncidentAnnounced
<1> QED BY <1>9, <1>10 DEF Fate, AutoIncidentAnnounced

LEMMA FateWork ==
  ASSUME IInv, Fate, NEW w \in Workers, Work(w)
  PROVE  Fate'
<1> USE DEF db, streams, history
<1>0. TypeOK
  BY DEF IInv, TypeInv
<1>1. ASSUME UNCHANGED <<incidents, alerts, unsent>>, pc[w] # "alertDown",
             NEW step, step # "alertDown", Goto(w, step),
             \A v \in Workers \ {w} : job'[v] = job[v]
      PROVE  Fate'
  <2>1. pc'[w] = step /\ \A v \in Workers \ {w} : pc'[v] = pc[v]
    BY <1>0, <1>1 DEF Goto, TypeOK
  <2> QED BY <1>1, <2>1, FateKept
<1>2. CASE InsertResult(w) \/ SnapshotStatus(w) \/ GetOpen(w) \/ Ack(w) \/ Nak(w)
  <2>1. \A v \in Workers \ {w} : job'[v] = job[v]
    BY <1>0, <1>2 DEF InsertResult, SnapshotStatus, GetOpen, Ack, Nak, Done, TypeOK
  <2>2. PICK step \in {"snapshot", "status", "resolve", "ack", "idle"} : Goto(w, step)
    BY <1>2 DEF InsertResult, SnapshotStatus, GetOpen, Ack, Nak, Done
  <2> QED BY <1>1, <1>2, <2>1, <2>2 DEF InsertResult, SnapshotStatus, GetOpen, Ack, Nak
<1>3. CASE UpdateStatus(w) \/ CheckFailures(w) \/ CheckCooldownAndMaintenance(w)
  <2>1. PICK step \in {"failures", "getOpen", "ack", "nak", "cooldown", "create"} : Goto(w, step)
    BY <1>3 DEF UpdateStatus, AfterStatus, CheckFailures, CheckCooldownAndMaintenance
  <2> QED BY <1>1, <1>3, <2>1 DEF UpdateStatus, CheckFailures, CheckCooldownAndMaintenance
<1>4. CASE CreateAuto(w)
  <2>1. CASE IncidentExists
    BY <1>1, <1>4, <2>1 DEF CreateAuto
  <2>2. CASE ~IncidentExists
    <3>0. PICK n : n = Len(incidents')
      OBVIOUS
    <3>1. /\ CreateIncident("auto", "none") /\ Goto(w, "alertDown") /\ UNCHANGED <<alerts, unsent>>
          /\ job' = [job EXCEPT ![w].incident = n]
      BY <1>4, <2>2, <3>0 DEF CreateAuto
    <3>2. /\ pc'[w] = "alertDown" /\ job'[w].incident = n
          /\ \A v \in Workers \ {w} : pc'[v] = pc[v] /\ job'[v] = job[v]
      BY <1>0, <3>1 DEF Goto, TypeOK, Job
    <3>3. DOMAIN incidents' = DOMAIN incidents \cup {n} /\ n \notin DOMAIN incidents /\ Advance
      BY <1>0, <2>2, <3>0, <3>1, AdvanceCreate DEF IInv
    <3>4. n \notin unsent /\ ~Announced(n)
      BY <3>3 DEF Fate, Announced, IInv, Told, AlertRefs
    <3>5. pc[w] # "alertDown"
      BY <1>4 DEF CreateAuto
    <3> QED BY <3>1, <3>2, <3>3, <3>4, <3>5, FateKept DEF Advance
  <2> QED BY <2>1, <2>2
<1>5. CASE Resolve(w)
  <2>1. Goto(w, "alertUp") /\ pc[w] # "alertDown" /\ UNCHANGED <<job, alerts, unsent>>
    BY <1>5 DEF Resolve
  <2>2. pc'[w] = "alertUp" /\ \A v \in Workers \ {w} : pc'[v] = pc[v]
    BY <1>0, <2>1 DEF Goto, TypeOK
  <2>3. Advance /\ DOMAIN incidents' = DOMAIN incidents
    BY <1>5, ResolveAdvances
  <2> QED BY <2>1, <2>2, <2>3, FateKept DEF Advance
<1>6. CASE PublishAlert(w)
  <2>1. PICK step \in {"ack", "nak"} : Goto(w, step)
    BY <1>6 DEF PublishAlert
  <2>2. pc[w] \in {"alertDown", "alertUp"} /\ UNCHANGED <<incidents, job>>
    BY <1>6 DEF PublishAlert
  <2>3. pc'[w] = step /\ \A v \in Workers \ {w} : pc'[v] = pc[v]
    BY <1>0, <2>1 DEF Goto, TypeOK
  <2>4. CASE alerts' = Append(alerts, AlertOf(w)) /\ UNCHANGED unsent
    BY <2>1, <2>2, <2>4, FateStored
  <2>5. CASE Unsent(w) /\ UNCHANGED alerts
    <3>1. CASE pc[w] = "alertDown"
      BY <2>2, <2>3, <2>5, <3>1, FateLost DEF Unsent
    <3>2. CASE pc[w] # "alertDown"
      BY <1>1, <2>1, <2>2, <2>5, <3>2 DEF Unsent
    <3> QED BY <3>1, <3>2
  <2> QED BY <1>6, <2>4, <2>5 DEF PublishAlert
<1> QED BY <1>2, <1>3, <1>4, <1>5, <1>6 DEF Work

LEMMA FateStep == IInv /\ Fate /\ [Next]_vars => Fate'
<1> SUFFICES ASSUME IInv, Fate, [Next]_vars PROVE Fate'
  OBVIOUS
<1> USE DEF db, streams, history
<1>0. TypeOK
  BY DEF IInv, TypeInv
<1>1. ASSUME UNCHANGED <<incidents, alerts, unsent, pc, job>> PROVE Fate'
  BY <1>1, FateOutside
<1>2. ASSUME UNCHANGED <<alerts, unsent, pc, job>>, Advance, DOMAIN incidents' = DOMAIN incidents
      PROVE  Fate'
  BY <1>2, FateOutside DEF Advance
<1>3. ASSUME NEW w \in Workers, NEW t \in Tasks, Fetch(w, t) PROVE Fate'
  <2>1. /\ pc[w] # "alertDown" /\ pc'[w] # "alertDown"
        /\ \A v \in Workers \ {w} : pc'[v] = pc[v] /\ job'[v] = job[v]
    BY <1>0, <1>3 DEF Fetch, Goto, TypeOK
  <2> QED BY <1>3, <2>1, FateKept DEF Fetch
<1>4. ASSUME NEW w \in Workers, StatementFails(w) PROVE Fate'
  <2>1. /\ pc[w] # "alertDown" /\ pc'[w] # "alertDown"
        /\ \A v \in Workers \ {w} : pc'[v] = pc[v]
    BY <1>0, <1>4 DEF StatementFails, OnError, Goto, TypeOK
  <2> QED BY <1>4, <2>1, FateKept DEF StatementFails
<1>5. ASSUME NEW w \in Workers, Crash(w) PROVE Fate'
  <2>1. /\ pc'[w] # "alertDown" /\ UNCHANGED <<incidents, alerts>>
        /\ \A v \in Workers \ {w} : pc'[v] = pc[v] /\ job'[v] = job[v]
    BY <1>0, <1>5 DEF Crash, Done, Goto, TypeOK
  <2>2. CASE pc[w] = "alertDown"
    BY <1>5, <2>1, <2>2, FateLost DEF Crash, Unsent
  <2>3. CASE pc[w] # "alertDown"
    BY <1>5, <2>1, <2>3, FateKept DEF Crash, Unsent
  <2> QED BY <2>2, <2>3
<1>6. ASSUME NEW r \in Requests, CommitChangeState(r) PROVE Fate'
  BY <1>2, <1>6, CommitChangeAdvances DEF CommitChangeState
<1>7. ASSUME NEW r \in Requests, CommitManualIncident(r) PROVE Fate'
  <2>0. PICK n : n = Len(incidents')
    OBVIOUS
  <2>1. Advance /\ DOMAIN incidents' = DOMAIN incidents \cup {n} /\ incidents'[n].kind = "manual"
    BY <1>0, <1>7, <2>0, AdvanceCreate DEF CommitManualIncident, IInv, States
  <2>2. \A i \in DOMAIN incidents' : incidents'[i].kind = "auto" =>
          i \in DOMAIN incidents /\ incidents[i].kind = "auto"
    BY <2>1 DEF Advance
  <2> QED BY <1>7, <2>1, <2>2, FateOutside DEF CommitManualIncident
<1>8. ASSUME NEW r \in Requests,
             \/ \E i \in DOMAIN incidents, next \in States : BeginChangeState(r, i, next)
             \/ BeginManualIncident(r) \/ RollBack(r)
      PROVE  Fate'
  BY <1>1, <1>8 DEF BeginChangeState, BeginManualIncident, RollBack
<1>9. ASSUME NEW i \in DOMAIN incidents, CooldownElapses(i) PROVE Fate'
  BY <1>2, <1>9, CooldownAdvances DEF CooldownElapses
<1>10. ASSUME NEW t \in Tasks, AckWaitExpires(t) PROVE Fate'
  BY <1>1, <1>10 DEF AckWaitExpires
<1>11. ASSUME NEW cutoff, DeleteByPlan(cutoff) PROVE Fate'
  BY <1>1, <1>11 DEF DeleteByPlan
<1>12. CASE DeleteMonitor \/ UNCHANGED vars
  BY <1>1, <1>12 DEF DeleteMonitor, vars
<1> QED
  BY <1>3, <1>4, <1>5, <1>6, <1>7, <1>8, <1>9, <1>10, <1>11, <1>12, FateWork DEF Next

\* Every incident the workers opened is announced or about to be, unless its one
\* announcement was lost with a failed publish or a dead worker, and then it is
\* never made: for any number of workers and requests and whatever fails.
THEOREM AutoIncidentAnnouncedAlways == Spec => []AutoIncidentAnnounced
<1>1. Init => IInv /\ Fate
  BY InitInv DEF Init, Fate, AutoIncidentAnnounced
<1>2. IInv /\ Fate /\ [Next]_vars => (IInv /\ Fate)'
  BY InvStep, FateStep
<1>3. Fate => AutoIncidentAnnounced
  BY DEF Fate
<1> QED BY <1>1, <1>2, <1>3, PTL DEF Spec
-----------------------------------------------------------------------------
(* The cooldown *)

\* A worker about to insert has found no cooldown, and none began since unless
\* something was resolved meanwhile.
Cooled == \A w \in Workers : pc[w] = "create" => w \in raced \/ ~IsInCooldown

\* Only a worker's INSERT adds a row that is automatic.
FlapSafe ==
  /\ Len(incidents') > Len(incidents)
  /\ incidents'[Len(incidents')].kind = "auto"
  => \/ ~IsInCooldown
     \/ \E w \in raced : pc[w] = "create" /\ pc'[w] = "alertDown"

LEMMA SameLength ==
  ASSUME TypeOK, TypeOK', DOMAIN incidents' = DOMAIN incidents
  PROVE  FlapSafe
<1>1. Len(incidents') = Len(incidents) /\ Len(incidents) \in Nat
  <2>1. /\ incidents \in Seq(Incident) /\ incidents' \in Seq(Incident)
        /\ Len(incidents) \in Nat /\ Len(incidents') \in Nat
        /\ DOMAIN incidents = 1..Len(incidents) /\ DOMAIN incidents' = 1..Len(incidents')
    BY DEF TypeOK
  <2> QED BY <2>1
<1> QED BY <1>1 DEF FlapSafe

\* A row that is new is not resolved.
LEMMA CreateKeepsCooldown ==
  ASSUME TypeOK, NEW kind \in {"auto", "manual"}, NEW posted \in States \cup {"none"},
         CreateIncident(kind, posted)
  PROVE  IsInCooldown' => IsInCooldown
<1> DEFINE x == [kind |-> kind, state |-> "investigating", resolvedAt |-> "null", posted |-> posted]
<1>1. x \in Incident /\ x.resolvedAt = "null"
  BY DEF Incident, States
<1>2. incidents \in Seq(Incident) /\ incidents' = Append(incidents, x)
  BY DEF TypeOK, CreateIncident
<1> HIDE DEF x
<1>3. /\ incidents' \in Seq(Incident)
      /\ Len(incidents') = Len(incidents) + 1
      /\ \A i \in 1..Len(incidents) : incidents'[i] = incidents[i]
      /\ incidents'[Len(incidents) + 1] = x
  BY <1>1, <1>2, AppendProperties
<1> QED BY <1>1, <1>2, <1>3 DEF IsInCooldown

LEMMA CooledKept ==
  ASSUME Cooled, \A w \in Workers : pc'[w] = "create" => pc[w] = "create",
         raced \subseteq raced', IsInCooldown' => IsInCooldown
  PROVE  Cooled'
BY DEF Cooled

\* What is resolved outdates the cooldown check of every worker about to insert.
LEMMA CooledOutdated ==
  ASSUME Outdates, \A w \in Workers : pc'[w] = "create" => pc[w] = "create"
  PROVE  Cooled'
BY DEF Cooled, Outdates

LEMMA CooledWork ==
  ASSUME IInv, TypeOK', Cooled, NEW w \in Workers, Work(w)
  PROVE  Cooled' /\ FlapSafe
<1> USE DEF db, streams, history
<1>0. TypeOK
  BY DEF IInv, TypeInv
<1>1. ASSUME UNCHANGED <<incidents, raced>>, NEW step, step # "create", Goto(w, step)
      PROVE  Cooled' /\ FlapSafe
  BY <1>0, <1>1, SameLength, CooledKept DEF IsInCooldown, Goto, TypeOK
<1>2. CASE InsertResult(w) \/ SnapshotStatus(w) \/ GetOpen(w) \/ PublishAlert(w) \/ Ack(w) \/ Nak(w)
  BY <1>1, <1>2 DEF InsertResult, SnapshotStatus, GetOpen, PublishAlert, Ack, Nak, Done
<1>3. CASE UpdateStatus(w) \/ CheckFailures(w)
  BY <1>1, <1>3 DEF UpdateStatus, AfterStatus, CheckFailures
<1>4. CASE CheckCooldownAndMaintenance(w)
  <2>1. CASE Goto(w, "ack") /\ UNCHANGED raced
    BY <1>1, <1>4, <2>1 DEF CheckCooldownAndMaintenance
  <2>2. CASE ~IsInCooldown
    <3>1. ~IsInCooldown' /\ UNCHANGED incidents
      BY <1>4, <2>2 DEF CheckCooldownAndMaintenance, IsInCooldown
    <3> QED BY <1>0, <3>1, SameLength DEF Cooled
  <2> QED BY <1>4, <2>1, <2>2 DEF CheckCooldownAndMaintenance
<1>5. CASE CreateAuto(w)
  <2>1. CASE IncidentExists
    BY <1>1, <1>5, <2>1 DEF CreateAuto
  <2>2. CASE ~IncidentExists
    <3>1. CreateIncident("auto", "none") /\ Goto(w, "alertDown") /\ UNCHANGED raced
      BY <1>5, <2>2 DEF CreateAuto
    <3>2. pc[w] = "create" /\ pc'[w] = "alertDown" /\ \A v \in Workers \ {w} : pc'[v] = pc[v]
      BY <1>0, <1>5, <3>1 DEF CreateAuto, Goto, TypeOK
    <3>3. Cooled'
      BY <1>0, <3>1, <3>2, CreateKeepsCooldown, CooledKept
    <3> QED BY <3>2, <3>3 DEF FlapSafe, Cooled
  <2> QED BY <2>1, <2>2
<1>6. CASE Resolve(w)
  <2>1. DOMAIN incidents' = DOMAIN incidents
    BY <1>6, ResolveAdvances
  <2>2. \A v \in Workers : pc'[v] = "create" => pc[v] = "create"
    BY <1>0, <1>6 DEF Resolve, Goto, TypeOK
  <2> QED BY <1>0, <1>6, <2>1, <2>2, SameLength, CooledOutdated DEF Resolve, ResolveIncident
<1> QED BY <1>2, <1>3, <1>4, <1>5, <1>6 DEF Work

LEMMA CooledStep == IInv /\ TypeOK' /\ Cooled /\ [Next]_vars => Cooled' /\ FlapSafe
<1> SUFFICES ASSUME IInv, TypeOK', Cooled, [Next]_vars PROVE Cooled' /\ FlapSafe
  OBVIOUS
<1> USE DEF db, streams, history
<1>0. TypeOK
  BY DEF IInv, TypeInv
<1>1. ASSUME UNCHANGED <<incidents, raced>>, \A w \in Workers : pc'[w] = "create" => pc[w] = "create"
      PROVE  Cooled' /\ FlapSafe
  BY <1>0, <1>1, SameLength, CooledKept DEF IsInCooldown
<1>2. ASSUME NEW w \in Workers, NEW t \in Tasks, Fetch(w, t) PROVE Cooled' /\ FlapSafe
  BY <1>0, <1>1, <1>2 DEF Fetch, Goto, TypeOK
<1>3. ASSUME NEW w \in Workers, StatementFails(w) \/ Crash(w) PROVE Cooled' /\ FlapSafe
  BY <1>0, <1>1, <1>3 DEF StatementFails, OnError, Crash, Done, Goto, TypeOK
<1>4. ASSUME NEW i \in DOMAIN incidents, CooldownElapses(i) PROVE Cooled' /\ FlapSafe
  <2>1. DOMAIN incidents' = DOMAIN incidents
    BY <1>4, CooldownAdvances
  <2>2. IsInCooldown' => IsInCooldown
    BY <1>0, <1>4 DEF CooldownElapses, IsInCooldown, TypeOK
  <2> QED BY <1>0, <1>4, <2>1, <2>2, SameLength, CooledKept DEF CooldownElapses
<1>5. ASSUME NEW r \in Requests, CommitChangeState(r) PROVE Cooled' /\ FlapSafe
  <2>1. DOMAIN incidents' = DOMAIN incidents
    BY <1>5, CommitChangeAdvances
  <2>2. CASE req[r].next = "resolved"
    BY <1>0, <1>5, <2>1, <2>2, SameLength, CooledOutdated DEF CommitChangeState
  <2>3. CASE req[r].next # "resolved"
    <3> DEFINE i == req[r].incident
               x == Moved(incidents[i], req[r].next)
    <3>1. i \in DOMAIN incidents /\ incidents' = [incidents EXCEPT ![i] = x] /\ req[r] \in Request
      BY <1>5 DEF CommitChangeState, IInv, RequestRefs, TypeInv, TypeOK
    <3>2. incidents[i] \in Incident /\ req[r].next \in States
      BY <3>1 DEF IInv, TypeInv, TypeOK, Request
    <3>3. x \in Incident /\ x.resolvedAt = incidents[i].resolvedAt
      BY <2>3, <3>2, MovedFields
    <3> HIDE DEF x, i
    <3>4. \A j \in DOMAIN incidents : incidents'[j] = IF j = i THEN x ELSE incidents[j]
      BY <1>0, <3>1, <3>3, IncidentUpdate
    <3>5. IsInCooldown' => IsInCooldown
      BY <2>1, <3>3, <3>4 DEF IsInCooldown
    <3> QED BY <1>0, <1>5, <2>1, <2>3, <3>5, SameLength, CooledKept DEF CommitChangeState
  <2> QED BY <2>2, <2>3
<1>6. ASSUME NEW r \in Requests, CommitManualIncident(r) PROVE Cooled' /\ FlapSafe
  <2>0. PICK n : n = Len(incidents')
    OBVIOUS
  <2>1. incidents'[n].kind = "manual"
    BY <1>0, <1>6, <2>0, AdvanceCreate DEF CommitManualIncident, IInv, States
  <2>2. IsInCooldown' => IsInCooldown
    BY <1>0, <1>6, CreateKeepsCooldown DEF CommitManualIncident, States
  <2>3. Cooled'
    BY <1>6, <2>2, CooledKept DEF CommitManualIncident
  <2> QED BY <2>0, <2>1, <2>3 DEF FlapSafe
<1>7. ASSUME NEW r \in Requests,
             \/ \E i \in DOMAIN incidents, next \in States : BeginChangeState(r, i, next)
             \/ BeginManualIncident(r) \/ RollBack(r)
      PROVE  Cooled' /\ FlapSafe
  BY <1>1, <1>7 DEF BeginChangeState, BeginManualIncident, RollBack
<1>8. ASSUME NEW cutoff, DeleteByPlan(cutoff) PROVE Cooled' /\ FlapSafe
  BY <1>1, <1>8 DEF DeleteByPlan
<1>9. CASE DeleteMonitor \/ (\E t \in Tasks : AckWaitExpires(t)) \/ UNCHANGED vars
  BY <1>1, <1>9 DEF DeleteMonitor, AckWaitExpires, vars
<1> QED BY <1>2, <1>3, <1>4, <1>5, <1>6, <1>7, <1>8, <1>9, CooledWork DEF Next

\* An incident is opened within five minutes of a resolution only by a worker
\* whose cooldown check came before that resolution; for any number of workers
\* and requests, whatever fails.
THEOREM FlapProtectionAlways == Spec => FlapProtection
<1>1. Init => IInv /\ Cooled
  BY InitInv DEF Init, Cooled
<1>2. IInv /\ Cooled /\ [Next]_vars => (IInv /\ Cooled)' /\ FlapSafe
  BY InvStep, CooledStep DEF IInv, TypeInv
<1>3. FlapSafe => (/\ Len(incidents') > Len(incidents)
                   /\ incidents'[Len(incidents')].kind = "auto"
                   => \/ ~IsInCooldown
                      \/ \E w \in raced : pc[w] = "create" /\ pc'[w] = "alertDown")
  BY DEF FlapSafe
<1> QED BY <1>1, <1>2, <1>3, PTL DEF Spec, FlapProtection
=============================================================================
