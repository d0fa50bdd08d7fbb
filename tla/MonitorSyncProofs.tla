------------------------- MODULE MonitorSyncProofs -------------------------
(***************************************************************************)
(* Proofs about MonitorSync: its types, with the bound on the deliveries.  *)
(***************************************************************************)
EXTENDS MonitorSync, SequenceTheorems, TLAPS

-----------------------------------------------------------------------------
(* Types *)

\* A request in progress has an id, so that its event is an Event.
TypeInv == TypeOK /\ \A r \in Requests : req[r].at # "idle" => req[r].id \in 1..MaxOps

\* AnyConfig is one of Configs, so the zero monitor and the idle request are typed.
LEMMA Zeros == AnyConfig \in Configs /\ Absent \in Monitor /\ Idle \in Request
<1>1. AnyConfig \in Configs
  BY SyncAssumption DEF AnyConfig
<1>2. Absent \in Monitor
  BY <1>1 DEF Absent, Monitor
<1> QED
  BY <1>1, <1>2, SyncAssumption DEF Idle, Request, Ops

\* Changing one field of a monitor leaves a monitor.
LEMMA MonitorFields ==
  ASSUME NEW m \in Monitor, NEW p \in BOOLEAN, NEW c \in Configs
  PROVE  /\ [m EXCEPT !.paused = p] \in Monitor
         /\ [m EXCEPT !.cfg = c] \in Monitor
         /\ [m EXCEPT !.cfg = c, !.paused = p] \in Monitor
         /\ [m EXCEPT !.state = "deleted"] \in Monitor
BY DEF Monitor

\* What a statement writes is a monitor.
LEMMA WrittenType ==
  ASSUME row \in Monitor, NEW q \in Request
  PROVE  Written(q) \in Monitor
BY DEF Written, Monitor, Request, Ops

\* The event of a request is an event.
LEMMA EventType ==
  ASSUME NEW q \in Request, q.id \in 1..MaxOps
  PROVE  MonitorToEvent(q) \in Event
<1>1. Action(q) \in Actions
  BY DEF Action, Actions, Request, Ops
<1>2. q.mon.paused \in BOOLEAN /\ q.mon.cfg \in Configs
  BY DEF Request, Monitor
<1> QED
  BY <1>1, <1>2, Zeros DEF MonitorToEvent, Event

\* The map entry an event leaves is a monitor.
LEMMA AppliedType == ASSUME NEW e \in Event PROVE Applied(e) \in Monitor
BY Zeros DEF Applied, Event, Monitor

\* A request leaves a step as a request when its record changes to another.
LEMMA BeginType ==
  ASSUME TypeInv, NEW r \in Requests, NEW op \in Ops, NEW mon \in Monitor,
         Begin(r, op, mon)
  PROVE  TypeInv'
<1> DEFINE new == [at |-> "write", op |-> op, id |-> ops + 1, mon |-> mon]
<1>1. ops + 1 \in 1..MaxOps /\ ops' \in 0..MaxOps
  BY SyncAssumption DEF TypeInv, TypeOK, Begin
<1>2. new \in Request /\ new.id \in 1..MaxOps
  BY <1>1 DEF Request
<1>3. req' = [req EXCEPT ![r] = new]
  BY DEF Begin
<1> HIDE DEF new
<1>4. req' \in [Requests -> Request]
  BY <1>2, <1>3 DEF TypeInv, TypeOK
<1>5. \A q \in Requests : req'[q].at # "idle" => req'[q].id \in 1..MaxOps
  BY <1>2, <1>3 DEF TypeInv, TypeOK
<1> QED
  BY <1>1, <1>4, <1>5 DEF TypeInv, TypeOK, Begin, queue

\* Init and every action keep the types.
LEMMA TypeStep == TypeInv /\ [Next]_vars => TypeInv'
<1> SUFFICES ASSUME TypeInv, [Next]_vars PROVE TypeInv'
  OBVIOUS
<1> USE DEF TypeInv, TypeOK
<1>1. CASE UNCHANGED vars
  BY <1>1 DEF vars
<1>2. ASSUME NEW r \in Requests, BeginCreate(r) PROVE TypeInv'
  <2>1. PICK c \in Configs : Begin(r, "create", [state |-> "live", paused |-> FALSE, cfg |-> c])
    BY <1>2 DEF BeginCreate
  <2>2. [state |-> "live", paused |-> FALSE, cfg |-> c] \in Monitor
    BY DEF Monitor
  <2> QED
    BY <2>1, <2>2, BeginType DEF Ops
<1>3. ASSUME NEW r \in Requests, BeginUpdate(r) PROVE TypeInv'
  <2>1. PICK c \in Configs : \/ Begin(r, "update", [row EXCEPT !.cfg = c])
                             \/ \E p \in BOOLEAN : Begin(r, "update", [row EXCEPT !.cfg = c, !.paused = p])
    BY <1>3 DEF BeginUpdate
  <2>2. CASE Begin(r, "update", [row EXCEPT !.cfg = c])
    <3>1. [row EXCEPT !.cfg = c] \in Monitor
      BY MonitorFields
    <3> QED
      BY <2>2, <3>1, BeginType DEF Ops
  <2>3. ASSUME NEW p \in BOOLEAN, Begin(r, "update", [row EXCEPT !.cfg = c, !.paused = p])
        PROVE  TypeInv'
    <3>1. [row EXCEPT !.cfg = c, !.paused = p] \in Monitor
      BY MonitorFields
    <3> QED
      BY <2>3, <3>1, BeginType DEF Ops
  <2> QED
    BY <2>1, <2>2, <2>3
<1>4. ASSUME NEW r \in Requests, BeginToggle(r) PROVE TypeInv'
  BY <1>4, BeginType DEF BeginToggle, Ops
<1>5. ASSUME NEW r \in Requests, BeginDelete(r) PROVE TypeInv'
  BY <1>5, BeginType DEF BeginDelete, Ops
<1>6. ASSUME NEW r \in Requests, Refuse(r) PROVE TypeInv'
  BY <1>6, Zeros DEF Refuse, queue, Idle
<1>7. ASSUME NEW r \in Requests, Write(r) PROVE TypeInv'
  <2>1. row' \in Monitor
    BY <1>7, WrittenType DEF Write
  <2>2. PICK m \in Monitor : req' = [req EXCEPT ![r] = [req[r] EXCEPT !.at = "publish", !.mon = m]]
    <3>1. req' = [req EXCEPT ![r] = [req[r] EXCEPT !.at = "publish",
                    !.mon = IF req[r].op = "toggle" THEN row' ELSE req[r].mon]]
      BY <1>7 DEF Write
    <3> QED
      BY <2>1, <3>1 DEF Request
  <2>3. [req[r] EXCEPT !.at = "publish", !.mon = m] \in Request
    BY DEF Request
  <2>4. [req[r] EXCEPT !.at = "publish", !.mon = m].id = req[r].id
    BY DEF Request
  <2>5. req[r].id \in 1..MaxOps
    BY <1>7 DEF Write
  <2> QED
    BY <1>7, <2>1, <2>2, <2>3, <2>4, <2>5 DEF Write, queue
<1>8. ASSUME NEW r \in Requests, Publish(r) PROVE TypeInv'
  <2>1. MonitorToEvent(req[r]) \in Event
    BY <1>8, EventType DEF Publish
  <2>2. stream' \in Seq(Event)
    BY <1>8, <2>1 DEF Publish
  <2> QED
    BY <1>8, <2>2, Zeros DEF Publish, Idle
<1>9. ASSUME NEW r \in Requests, PublishFails(r) PROVE TypeInv'
  BY <1>9, Zeros DEF PublishFails, queue, Idle
<1>10. ASSUME NEW i \in Instances, Deliver(i) PROVE TypeInv'
  <2>1. PICK e \in Event : e = Head(stream)
    BY <1>10 DEF Deliver
  <2>2. /\ inbox' = [inbox EXCEPT ![i] = Append(inbox[i], e)]
        /\ pending' = pending \cup {e}
        /\ tries' = [tries EXCEPT ![e.id] = 1]
        /\ stream' = Tail(stream)
    BY <1>10, <2>1 DEF Deliver
  <2>3. Append(inbox[i], e) \in Seq(Event) /\ stream' \in Seq(Event)
    BY <1>10, <2>2 DEF Deliver
  <2>4. tries' \in [1..MaxOps -> 0..MaxDeliver]
    BY <2>2, SyncAssumption DEF Event
  <2> QED
    BY <1>10, <2>2, <2>3, <2>4 DEF Deliver
<1>11. ASSUME NEW i \in Instances, NEW e \in pending, Redeliver(i, e) PROVE TypeInv'
  <2>1. e \in Event /\ e.id \in 1..MaxOps
    BY DEF Event
  <2>2. Append(inbox[i], e) \in Seq(Event)
    BY <2>1
  <2>3. tries[e.id] + 1 \in 0..MaxDeliver
    BY <1>11, <2>1, SyncAssumption DEF Redeliver
  <2> QED
    BY <1>11, <2>2, <2>3 DEF Redeliver
<1>12. ASSUME NEW i \in Instances, Handle(i) PROVE TypeInv'
  <2>1. PICK e \in Event : e = Head(inbox[i])
    BY <1>12 DEF Handle
  <2>2. /\ view' = [view EXCEPT ![i] = Applied(e)]
        /\ inbox' = [inbox EXCEPT ![i] = Tail(inbox[i])]
        /\ pending' = pending \ {e}
    BY <1>12, <2>1 DEF Handle
  <2>3. Applied(e) \in Monitor /\ Tail(inbox[i]) \in Seq(Event)
    BY <1>12, AppliedType DEF Handle
  <2> QED
    BY <1>12, <2>2, <2>3 DEF Handle
<1>13. ASSUME NEW i \in Instances, Crash(i) PROVE TypeInv'
  <2>1. <<>> \in Seq(Event)
    OBVIOUS
  <2> QED
    BY <1>13, <2>1, Zeros DEF Crash
<1>14. ASSUME NEW i \in Instances, Start(i) PROVE TypeInv'
  BY <1>14, Zeros DEF Start, ListActive, queue
<1> QED
  BY <1>1, <1>2, <1>3, <1>4, <1>5, <1>6, <1>7, <1>8, <1>9, <1>10, <1>11, <1>12, <1>13, <1>14
  DEF Next, Serve, Consume

LEMMA TypeInit == Init => TypeInv
BY Zeros, SyncAssumption DEF Init, TypeInv, TypeOK, Idle

\* The state keeps its types: deliveries never exceed the consumer's MaxDeliver
\* and only well-formed events travel, for every number of instances, requests,
\* configurations and deliveries, and whatever fails.
THEOREM SyncTypeCorrect == Spec => []TypeOK
<1>1. Spec => []TypeInv
  BY TypeInit, TypeStep, PTL DEF Spec
<1> QED
  BY <1>1, PTL DEF TypeInv
=============================================================================
