----------------------- MODULE IncidentContractProofs -----------------------
(***************************************************************************)
(* The check pipeline implements IncidentContract: the initial state maps  *)
(* to an initial state, and under the inductive invariant of               *)
(* IncidentDetectionProofs every step maps to a step of the contract or    *)
(* leaves outages and alerts alone.                                        *)
(***************************************************************************)
EXTENDS IncidentDetectionProofs

OutageOf(x) == [kind |-> x.kind, phase |-> IF x.resolvedAt = "null" THEN "open" ELSE "closed"]

LEMMA OutagesAreASequence ==
  ASSUME NEW s \in Seq(Incident)
  PROVE  /\ [i \in DOMAIN s |-> OutageOf(s[i])] \in Seq(Contract!Outage)
         /\ Len([i \in DOMAIN s |-> OutageOf(s[i])]) = Len(s)
<1> DEFINE o == [i \in DOMAIN s |-> OutageOf(s[i])]
<1>1. DOMAIN s = 1..Len(s) /\ Len(s) \in Nat
  OBVIOUS
<1>2. \A i \in DOMAIN s : OutageOf(s[i]) \in Contract!Outage
  <2>1. ASSUME NEW x \in Incident PROVE OutageOf(x) \in Contract!Outage
    BY DEF OutageOf, Contract!Outage, Incident
  <2>2. \A i \in DOMAIN s : s[i] \in Incident
    OBVIOUS
  <2> QED BY <2>1, <2>2
<1>3. o \in [1..Len(s) -> Contract!Outage]
  BY <1>1, <1>2
<1>4. o \in Seq(Contract!Outage)
  BY <1>1, <1>3, SeqDef
<1>5. DOMAIN o = 1..Len(s)
  BY <1>1
<1> QED BY <1>1, <1>4, <1>5, LenProperties

LEMMA OutagesMap ==
  /\ Outages = [i \in DOMAIN incidents |-> OutageOf(incidents[i])]
  /\ Outages' = [i \in DOMAIN incidents' |-> OutageOf(incidents'[i])]
BY DEF Outages, OutageOf, Open

LEMMA ContractInit == Init => Contract!Init
<1> SUFFICES ASSUME Init PROVE Contract!Init
  OBVIOUS
<1>1. incidents = <<>> /\ alerts = <<>>
  BY DEF Init
<1>2. incidents \in Seq(Incident) /\ Len(incidents) = 0
  BY <1>1, EmptySeq
<1>3. Outages \in Seq(Contract!Outage) /\ Len(Outages) = 0
  BY <1>2, OutagesAreASequence, OutagesMap
<1>4. Outages = <<>>
  BY <1>3, EmptySeq
<1> QED BY <1>1, <1>4 DEF Contract!Init

-----------------------------------------------------------------------------
(* The three ways a step shows in the contract. *)

LEMMA InsertBegins ==
  ASSUME IInv, TypeInv', ~IncidentExists,
         NEW kind \in {"auto", "manual"}, NEW posted \in States \cup {"none"},
         CreateIncident(kind, posted), UNCHANGED alerts
  PROVE  Contract!Begin(kind)
<1> DEFINE x == [kind |-> kind, state |-> "investigating", resolvedAt |-> "null", posted |-> posted]
           o == [kind |-> kind, phase |-> "open"]
<1>1. x \in Incident /\ o \in Contract!Outage
  BY DEF Incident, States, Contract!Outage
<1>2. OutageOf(x) = o
  BY DEF OutageOf
<1>3. incidents \in Seq(Incident) /\ incidents' = Append(incidents, x) /\ incidents' \in Seq(Incident)
  BY DEF IInv, TypeInv, TypeOK, CreateIncident
<1> HIDE DEF x, o
<1>4. /\ Len(incidents') = Len(incidents) + 1
      /\ \A i \in 1..Len(incidents) : incidents'[i] = incidents[i]
      /\ incidents'[Len(incidents) + 1] = x
  BY <1>1, <1>3, AppendProperties
<1>5. /\ Outages \in Seq(Contract!Outage) /\ Len(Outages) = Len(incidents)
      /\ Outages' \in Seq(Contract!Outage) /\ Len(Outages') = Len(incidents) + 1
      /\ Outages' = [i \in DOMAIN incidents' |-> OutageOf(incidents'[i])]
  BY <1>3, <1>4, OutagesAreASequence, OutagesMap
<1>6. /\ Append(Outages, o) \in Seq(Contract!Outage)
      /\ Len(Append(Outages, o)) = Len(incidents) + 1
      /\ \A i \in 1..Len(incidents) : Append(Outages, o)[i] = Outages[i]
      /\ Append(Outages, o)[Len(incidents) + 1] = o
  BY <1>1, <1>5, AppendProperties
<1>7. \A i \in 1..(Len(incidents) + 1) : Outages'[i] = Append(Outages, o)[i]
  <2>1. DOMAIN incidents = 1..Len(incidents) /\ DOMAIN incidents' = 1..(Len(incidents) + 1)
        /\ Len(incidents) \in Nat
    BY <1>3, <1>4
  <2>2. ASSUME NEW i \in 1..Len(incidents) PROVE Outages'[i] = Outages[i]
    BY <1>4, <1>5, <2>1, OutagesMap
  <2>3. Outages'[Len(incidents) + 1] = o
    BY <1>2, <1>4, <1>5, <2>1
  <2> QED BY <1>6, <2>1, <2>2, <2>3
<1>8. Outages' = Append(Outages, o)
  BY <1>5, <1>6, <1>7, SeqEqual
<1>9. \A i \in DOMAIN Outages : Outages[i].phase = "closed"
  BY DEF IncidentExists, Outages
<1> QED BY <1>8, <1>9 DEF Contract!Begin, o

\* An UPDATE that keeps the kind and never clears resolved_at ends the outage
\* or does not show.
LEMMA UpdateEnds ==
  ASSUME IInv, UNCHANGED alerts,
         NEW i \in DOMAIN incidents, NEW x \in Incident,
         incidents' = [incidents EXCEPT ![i] = x],
         x.kind = incidents[i].kind,
         x.resolvedAt = "null" => Open(i)
  PROVE  Contract!End(i) \/ UNCHANGED Outages
<1>1. /\ incidents \in Seq(Incident)
      /\ DOMAIN incidents' = DOMAIN incidents
      /\ \A j \in DOMAIN incidents : incidents'[j] = IF j = i THEN x ELSE incidents[j]
  BY IncidentUpdate DEF IInv, TypeInv, TypeOK
<1>2. Outages' = [Outages EXCEPT ![i] = OutageOf(x)]
  <2>1. Outages' = [j \in DOMAIN incidents |-> OutageOf(incidents'[j])]
    BY <1>1, OutagesMap
  <2>2. \A j \in DOMAIN incidents :
          OutageOf(incidents'[j]) = IF j = i THEN OutageOf(x) ELSE OutageOf(incidents[j])
    BY <1>1
  <2> QED BY <2>1, <2>2, OutagesMap
<1>3. Outages[i] = OutageOf(incidents[i])
  BY OutagesMap
<1>4. CASE OutageOf(x) = OutageOf(incidents[i])
  BY <1>2, <1>3, <1>4, OutagesMap
<1>5. CASE OutageOf(x) # OutageOf(incidents[i])
  <2>1. Open(i) /\ x.resolvedAt # "null"
    BY <1>5 DEF OutageOf, Open
  <2>2. Outages[i].phase = "open"
    BY <2>1, <1>3 DEF OutageOf, Open
  <2>3. OutageOf(x) = [Outages[i] EXCEPT !.phase = "closed"]
    BY <2>1, <1>3 DEF OutageOf
  <2>4. Outages' = [Outages EXCEPT ![i].phase = "closed"]
    BY <1>2, <2>3
  <2> QED BY <2>2, <2>4 DEF Contract!End
<1> QED BY <1>4, <1>5

LEMMA PublishTells ==
  ASSUME IInv, NEW w \in Workers, PublishAlert(w)
  PROVE  \/ \E i \in DOMAIN Outages : Contract!TellDown(i) \/ Contract!TellUp(i)
         \/ UNCHANGED <<Outages, alerts>>
<1> DEFINE i == job[w].incident
<1>1. /\ UNCHANGED incidents
      /\ i \in DOMAIN incidents
      /\ pc[w] \in {"alertDown", "alertUp"}
      /\ pc[w] = "alertUp" => ~Open(i)
      /\ pc[w] = "alertDown" => incidents[i].kind = "auto" /\ Untold(i)
  BY DEF PublishAlert, db, IInv, WorkerRefs
<1>2. UNCHANGED Outages /\ DOMAIN Outages = DOMAIN incidents
  BY <1>1 DEF Outages, Open
<1>3. /\ Outages[i].kind = incidents[i].kind
      /\ ~Open(i) => Outages[i].phase = "closed"
  BY <1>1 DEF Outages
<1>4. CASE alerts' = Append(alerts, AlertOf(w)) /\ pc[w] = "alertDown"
  <2>1. AlertOf(w) = [event |-> "down", incident |-> i]
    BY <1>4 DEF AlertOf
  <2>2. \A a \in DOMAIN alerts : alerts[a] # [event |-> "down", incident |-> i]
    BY <1>1, <1>4 DEF Untold
  <2> QED BY <1>1, <1>2, <1>3, <1>4, <2>1, <2>2 DEF Contract!TellDown
<1>5. CASE alerts' = Append(alerts, AlertOf(w)) /\ pc[w] = "alertUp"
  <2>1. AlertOf(w) = [event |-> "up", incident |-> i]
    BY <1>5 DEF AlertOf
  <2> QED BY <1>1, <1>2, <1>3, <1>5, <2>1 DEF Contract!TellUp
<1>6. CASE UNCHANGED alerts
  BY <1>2, <1>6
<1> QED BY <1>1, <1>4, <1>5, <1>6 DEF PublishAlert

-----------------------------------------------------------------------------
ContractVars == <<Outages, alerts>>

LEMMA ContractStep == IInv /\ [Next]_vars => [Contract!Next]_ContractVars
<1> SUFFICES ASSUME IInv, [Next]_vars PROVE [Contract!Next]_ContractVars
  OBVIOUS
<1>0. TypeInv'
  BY TypeStep DEF IInv
<1>1. ASSUME UNCHANGED <<incidents, alerts>> PROVE UNCHANGED ContractVars
  BY <1>1 DEF ContractVars, Outages, Open
<1>2. ASSUME NEW i \in DOMAIN incidents, Contract!End(i) PROVE Contract!Next
  BY <1>2 DEF Contract!Next, Outages
<1>3. ASSUME NEW kind \in {"auto", "manual"}, Contract!Begin(kind) PROVE Contract!Next
  BY <1>3 DEF Contract!Next
<1>4. ASSUME NEW w \in Workers, CreateAuto(w) PROVE [Contract!Next]_ContractVars
  BY <1>0, <1>1, <1>3, <1>4, InsertBegins DEF CreateAuto, streams
<1>5. ASSUME NEW r \in Requests, CommitManualIncident(r) PROVE [Contract!Next]_ContractVars
  BY <1>0, <1>3, <1>5, InsertBegins DEF CommitManualIncident, streams, States
<1>6. ASSUME NEW w \in Workers, Resolve(w) PROVE [Contract!Next]_ContractVars
  <2> DEFINE i == job[w].incident
             x == [incidents[i] EXCEPT !.resolvedAt = "recent", !.state = "resolved"]
  <2>1. /\ i \in DOMAIN incidents /\ incidents[i] \in Incident /\ UNCHANGED alerts
        /\ incidents' = [incidents EXCEPT ![i] = x]
    BY <1>6 DEF Resolve, ResolveIncident, streams, IInv, WorkerRefs, TypeInv, TypeOK
  <2>2. x \in Incident /\ x.kind = incidents[i].kind /\ x.resolvedAt = "recent"
    BY <2>1, IncidentFields DEF Incident
  <2> HIDE DEF x
  <2> QED BY <1>2, <2>1, <2>2, UpdateEnds DEF ContractVars
<1>7. ASSUME NEW r \in Requests, CommitChangeState(r) PROVE [Contract!Next]_ContractVars
  <2> DEFINE i == req[r].incident
             x == Moved(incidents[i], req[r].next)
  <2>1. /\ i \in DOMAIN incidents /\ incidents[i] \in Incident /\ UNCHANGED alerts
        /\ incidents' = [incidents EXCEPT ![i] = x]
        /\ req[r] \in Request
    BY <1>7 DEF CommitChangeState, streams, IInv, RequestRefs, TypeInv, TypeOK
  <2>2. /\ x \in Incident /\ x.kind = incidents[i].kind
        /\ x.resolvedAt = IF req[r].next = "resolved" THEN "recent" ELSE incidents[i].resolvedAt
    <3>1. req[r].next \in States
      BY <2>1 DEF Request
    <3> QED BY <2>1, <3>1, MovedFields
  <2> HIDE DEF x
  <2>3. x.resolvedAt = "null" => Open(i)
    BY <2>2 DEF Open
  <2> QED BY <1>2, <2>1, <2>2, <2>3, UpdateEnds DEF ContractVars
<1>8. ASSUME NEW i \in DOMAIN incidents, CooldownElapses(i) PROVE [Contract!Next]_ContractVars
  <2> DEFINE x == [incidents[i] EXCEPT !.resolvedAt = "past"]
  <2>1. /\ incidents[i] \in Incident /\ UNCHANGED alerts
        /\ incidents' = [incidents EXCEPT ![i] = x]
    BY <1>8 DEF CooldownElapses, streams, IInv, TypeInv, TypeOK
  <2>2. x \in Incident /\ x.kind = incidents[i].kind /\ x.resolvedAt = "past"
    BY <2>1, IncidentFields DEF Incident
  <2> HIDE DEF x
  <2> QED BY <1>2, <2>1, <2>2, UpdateEnds DEF ContractVars
<1>9. ASSUME NEW w \in Workers, PublishAlert(w) PROVE [Contract!Next]_ContractVars
  BY <1>9, PublishTells DEF Contract!Next, ContractVars
<1>10. ASSUME NEW w \in Workers,
              \/ \E t \in Tasks : Fetch(w, t)
              \/ InsertResult(w) \/ SnapshotStatus(w) \/ UpdateStatus(w) \/ CheckFailures(w)
              \/ CheckCooldownAndMaintenance(w) \/ GetOpen(w) \/ Ack(w) \/ Nak(w)
              \/ StatementFails(w) \/ Crash(w)
       PROVE UNCHANGED ContractVars
  <2>1. UNCHANGED <<incidents, alerts>>
    BY <1>10 DEF Fetch, InsertResult, SnapshotStatus, UpdateStatus, CheckFailures,
       CheckCooldownAndMaintenance, GetOpen, Ack, Nak, StatementFails, Crash, db, streams
  <2> QED BY <1>1, <2>1
<1>11. ASSUME NEW r \in Requests,
              \/ \E i \in DOMAIN incidents, next \in States : BeginChangeState(r, i, next)
              \/ BeginManualIncident(r) \/ RollBack(r)
       PROVE UNCHANGED ContractVars
  <2>1. UNCHANGED <<incidents, alerts>>
    BY <1>11 DEF BeginChangeState, BeginManualIncident, RollBack, db, streams
  <2> QED BY <1>1, <2>1
<1>12. CASE (\E t \in Tasks : AckWaitExpires(t)) \/ DeleteMonitor \/ UNCHANGED vars
  <2>1. UNCHANGED <<incidents, alerts>>
    BY <1>12 DEF AckWaitExpires, DeleteMonitor, vars, db, streams
  <2> QED BY <1>1, <2>1
<1>13. ASSUME NEW cutoff, DeleteByPlan(cutoff) PROVE UNCHANGED ContractVars
  BY <1>1, <1>13 DEF DeleteByPlan, streams
<1> QED
  BY <1>4, <1>5, <1>6, <1>7, <1>8, <1>9, <1>10, <1>11, <1>12, <1>13 DEF Next, Work

\* ProcessCheckResult on any number of workers, with redelivery and faults, and
\* the incident API together implement the contract.
THEOREM DetectionKeepsContract == Spec => KeepsContract
<1>1. Contract!Spec <=> Contract!Init /\ [][Contract!Next]_ContractVars
  BY DEF Contract!Spec, ContractVars
<1> QED BY ContractInit, ContractStep, Invariance, <1>1, PTL DEF Spec, KeepsContract
=============================================================================
