---------------------------- MODULE MonitorSync ----------------------------
(***************************************************************************)
(* How the scheduler instances learn which monitors to dispatch.  The API  *)
(* writes a monitor's row and then publishes an event to the MONITORS work *)
(* queue; all instances share one durable consumer, so that an event goes  *)
(* to one of them; an instance keeps a map it loads once, when it starts.  *)
(* One monitor is modelled: rows, events and map entries of different      *)
(* monitors do not meet.                                                   *)
(***************************************************************************)
EXTENDS Naturals, Sequences, FiniteSets

CONSTANTS
  Instances,   \* scheduler processes
  Requests,    \* API requests that may be in progress at once
  Configs,     \* what an update can change besides is_paused
  MaxDeliver,  \* of the consumer checker-worker
  MaxOps,      \* bound: number of API requests
  Faults       \* "publish", "slow", "crash", "restart": what may happen

ASSUME SyncAssumption ==
  /\ Configs # {} /\ MaxDeliver \in Nat \ {0} /\ MaxOps \in Nat
  /\ Faults \subseteq {"publish", "slow", "crash", "restart"}

VARIABLES
  row,       \* the row of table monitors
  req,       \* the API requests
  ops,       \* number of requests begun
  stream,    \* events not yet delivered
  pending,   \* events delivered and not acknowledged
  tries,     \* deliveries of each event so far
  inbox,     \* per instance: events received and not yet handled
  view,      \* per instance: its map entry for the monitor
  up         \* instances that run

vars == <<row, req, ops, stream, pending, tries, inbox, view, up>>
queue == <<stream, pending, tries, inbox>>

Monitor == [state : {"absent", "live", "deleted"}, paused : BOOLEAN, cfg : Configs]
Actions == {"create", "update", "resume", "pause", "delete"}
Event == [id : 1..MaxOps, action : Actions, paused : BOOLEAN, cfg : Configs]
Ops == {"create", "update", "toggle", "delete"}

\* mon is what the handler holds: the row it read, with the changes asked for.
Request == [at : {"idle", "write", "publish"}, op : Ops, id : 0..MaxOps, mon : Monitor]

AnyConfig == CHOOSE c \in Configs : TRUE
Absent == [state |-> "absent", paused |-> FALSE, cfg |-> AnyConfig]
Idle == [at |-> "idle", op |-> "create", id |-> 0, mon |-> Absent]

TypeOK ==
  /\ row \in Monitor
  /\ req \in [Requests -> Request]
  /\ ops \in 0..MaxOps
  /\ stream \in Seq(Event)
  /\ pending \subseteq Event
  /\ tries \in [1..MaxOps -> 0..MaxDeliver]
  /\ inbox \in [Instances -> Seq(Event)]
  /\ view \in [Instances -> Monitor]
  /\ up \subseteq Instances

-----------------------------------------------------------------------------
(* The API: load the monitor, write the row, publish the event.            *)

Begin(r, op, mon) ==
  /\ req[r].at = "idle" /\ ops < MaxOps
  /\ ops' = ops + 1
  /\ req' = [req EXCEPT ![r] = [at |-> "write", op |-> op, id |-> ops + 1, mon |-> mon]]
  /\ UNCHANGED <<row, queue, view, up>>

BeginCreate(r) ==
  /\ row.state = "absent"
  /\ \A q \in Requests : req[q].at = "idle"
  /\ \E c \in Configs :
       Begin(r, "create", [state |-> "live", paused |-> FALSE, cfg |-> c])

\* IsPaused and the other fields of the input are each optional.
BeginUpdate(r) ==
  /\ row.state = "live"
  /\ \E c \in Configs :
       \/ Begin(r, "update", [row EXCEPT !.cfg = c])
       \/ \E p \in BOOLEAN : Begin(r, "update", [row EXCEPT !.cfg = c, !.paused = p])

BeginToggle(r) == row.state = "live" /\ Begin(r, "toggle", row)

BeginDelete(r) == row.state = "live" /\ Begin(r, "delete", row)

\* Validation or the database refuses the request.
Refuse(r) ==
  /\ req[r].at = "write"
  /\ req' = [req EXCEPT ![r] = Idle]
  /\ UNCHANGED <<row, ops, queue, view, up>>

\* What the statement leaves in the table.  UPDATE ... WHERE deleted_at IS NULL
\* writes every column of a live row and reports nothing of a deleted one.
Written(q) ==
  IF q.op = "create" THEN q.mon
  ELSE IF row.state # "live" THEN row
  ELSE CASE q.op = "update" -> q.mon
         [] q.op = "toggle" -> [row EXCEPT !.paused = ~row.paused]
         [] q.op = "delete" -> [row EXCEPT !.state = "deleted"]

\* The toggle is the one statement that returns the row it wrote.
Write(r) ==
  /\ req[r].at = "write"
  /\ ~(req[r].op = "toggle" /\ row.state # "live")
  /\ row' = Written(req[r])
  /\ req' = [req EXCEPT ![r].at = "publish",
                        ![r].mon = IF req[r].op = "toggle" THEN row' ELSE @]
  /\ UNCHANGED <<ops, queue, view, up>>

Action(q) ==
  CASE q.op = "toggle" -> IF q.mon.paused THEN "pause" ELSE "resume"
    [] OTHER -> q.op

\* Pause and delete events carry only the monitor's id.
MonitorToEvent(q) ==
  IF Action(q) \in {"pause", "delete"}
  THEN [id |-> q.id, action |-> Action(q), paused |-> FALSE, cfg |-> AnyConfig]
  ELSE [id |-> q.id, action |-> Action(q), paused |-> q.mon.paused, cfg |-> q.mon.cfg]

Publish(r) ==
  /\ req[r].at = "publish"
  /\ stream' = Append(stream, MonitorToEvent(req[r]))
  /\ req' = [req EXCEPT ![r] = Idle]
  /\ UNCHANGED <<row, ops, pending, tries, inbox, view, up>>

\* The user gets an error, or not even that when the monitor was deleted; the
\* row stays as it is.
PublishFails(r) ==
  /\ "publish" \in Faults
  /\ req[r].at = "publish"
  /\ req' = [req EXCEPT ![r] = Idle]
  /\ UNCHANGED <<row, ops, queue, view, up>>

-----------------------------------------------------------------------------
(* The work queue and the subscriber.  An instance prefetches events and    *)
(* handles them one at a time.                                              *)

Deliver(i) ==
  /\ i \in up /\ stream # <<>>
  /\ LET e == Head(stream) IN
       /\ inbox' = [inbox EXCEPT ![i] = Append(@, e)]
       /\ pending' = pending \cup {e}
       /\ tries' = [tries EXCEPT ![e.id] = 1]
  /\ stream' = Tail(stream)
  /\ UNCHANGED <<row, req, ops, view, up>>

Held(e) == \E i \in Instances : \E k \in DOMAIN inbox[i] : inbox[i][k] = e

\* The acknowledgement did not come in time: the instance that has the event
\* is slow, or is gone.
RedeliverUncounted(i, e) ==
  /\ i \in up /\ e \in pending /\ tries[e.id] < MaxDeliver
  /\ ~Held(e)
  /\ inbox' = [inbox EXCEPT ![i] = Append(@, e)]
  /\ UNCHANGED <<row, req, ops, stream, pending, tries, view, up>>
RedeliverOnceMore(i, e) ==
  /\ i \in up /\ e \in pending /\ tries[e.id] <= MaxDeliver
  /\ "slow" \in Faults \/ ~Held(e)
  /\ tries' = [tries EXCEPT ![e.id] = @ + 1]
  /\ inbox' = [inbox EXCEPT ![i] = Append(@, e)]
  /\ UNCHANGED <<row, req, ops, stream, pending, view, up>>
Redeliver(i, e) ==
  /\ i \in up /\ e \in pending /\ tries[e.id] < MaxDeliver
  /\ "slow" \in Faults \/ ~Held(e)
  /\ tries' = [tries EXCEPT ![e.id] = @ + 1]
  /\ inbox' = [inbox EXCEPT ![i] = Append(@, e)]
  /\ UNCHANGED <<row, req, ops, stream, pending, view, up>>

\* The handler: Add with the event's fields, or Remove.
AppliedDeleteAdds(e) ==
  IF e.action # "pause"
  THEN [state |-> "live", paused |-> e.paused, cfg |-> e.cfg]
  ELSE Absent
AppliedAddsUnpaused(e) ==
  IF e.action \in {"create", "update", "resume"}
  THEN [state |-> "live", paused |-> FALSE, cfg |-> e.cfg]
  ELSE Absent
Applied(e) ==
  IF e.action \in {"create", "update", "resume"}
  THEN [state |-> "live", paused |-> e.paused, cfg |-> e.cfg]
  ELSE Absent

Handle(i) ==
  /\ i \in up /\ inbox[i] # <<>>
  /\ LET e == Head(inbox[i]) IN
       /\ view' = [view EXCEPT ![i] = Applied(e)]
       /\ pending' = pending \ {e}
  /\ inbox' = [inbox EXCEPT ![i] = Tail(@)]
  /\ UNCHANGED <<row, req, ops, stream, tries, up>>

-----------------------------------------------------------------------------
(* Instances come and go.  Events in flight at one that dies are delivered  *)
(* again, as often as the consumer allows.                                  *)

Crash(i) ==
  /\ \/ "crash" \in Faults
     \/ "restart" \in Faults /\ inbox[i] = <<>>
  /\ i \in up
  /\ up' = up \ {i}
  /\ inbox' = [inbox EXCEPT ![i] = <<>>]
  /\ view' = [view EXCEPT ![i] = Absent]
  /\ UNCHANGED <<row, req, ops, stream, pending, tries>>

\* ListActive, read before the subscription begins.
ListActive == IF row.state = "live" /\ ~row.paused THEN row ELSE Absent

Start(i) ==
  /\ i \notin up
  /\ up' = up \cup {i}
  /\ view' = [view EXCEPT ![i] = ListActive]
  /\ UNCHANGED <<row, req, ops, queue>>

-----------------------------------------------------------------------------
Init ==
  /\ row = Absent
  /\ req = [r \in Requests |-> Idle]
  /\ ops = 0
  /\ stream = <<>> /\ pending = {} /\ tries = [k \in 1..MaxOps |-> 0]
  /\ inbox = [i \in Instances |-> <<>>]
  /\ view = [i \in Instances |-> Absent]
  /\ up = Instances

Serve(r) == Write(r) \/ Refuse(r) \/ Publish(r)
Consume(i) == Deliver(i) \/ (\E e \in pending : Redeliver(i, e))

Next ==
  \/ \E r \in Requests :
       \/ BeginCreate(r) \/ BeginUpdate(r) \/ BeginToggle(r) \/ BeginDelete(r)
       \/ Serve(r) \/ PublishFails(r)
  \/ \E i \in Instances : Consume(i) \/ Handle(i) \/ Crash(i) \/ Start(i)

Spec == Init /\ [][Next]_vars

\* Requests end, instances are restarted, and one that keeps coming back gets to
\* receive an event; but it may die every time before it has handled it.
Fairness ==
  /\ \A r \in Requests : WF_vars(Serve(r) \/ PublishFails(r))
  /\ \A i \in Instances : WF_vars(Start(i)) /\ SF_vars(Consume(i)) /\ WF_vars(Handle(i))

FairSpec == Spec /\ Fairness

-----------------------------------------------------------------------------
(* Properties *)

\* The configuration a map entry or a row has checks dispatched with.
Dispatched(m) == IF m.state = "live" /\ ~m.paused THEN {m.cfg} ELSE {}

Settled ==
  /\ \A r \in Requests : req[r].at = "idle"
  /\ stream = <<>>
  /\ \A e \in pending : tries[e.id] = MaxDeliver
  /\ \A i \in Instances : inbox[i] = <<>>

\* When no request and no event is under way, every running instance dispatches
\* the monitor exactly as the row says: with its configuration when it is live
\* and not paused, and not at all otherwise.
Agreement == Settled => \A i \in up : Dispatched(view[i]) = Dispatched(row)

\* A deleted monitor is, from some time on, dispatched by no instance.
DeletedUnscheduled ==
  row.state = "deleted" ~> [](\A i \in up : Dispatched(view[i]) = {})

\* Whatever is lost, late or repeated, events do not circulate for ever: in the
\* end each one has been handled, or given up after MaxDeliver deliveries.
Quiesces == <>[]Settled
=============================================================================
