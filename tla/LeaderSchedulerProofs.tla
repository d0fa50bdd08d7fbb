----------------------- MODULE LeaderSchedulerProofs -----------------------
(***************************************************************************)
(* Proofs about LeaderScheduler: its types, and that the lease keeps two   *)
(* instances from dispatching at once until a round outlives it.           *)
(***************************************************************************)
EXTENDS LeaderScheduler, TLAPS

-----------------------------------------------------------------------------
(* Types *)

\* Changing one entry of an instance's table keeps the table's type.
LEMMA EntryType ==
  ASSUME NEW S, NEW f \in [Instances -> [Monitors -> S]], NEW i \in Instances,
         NEW m \in Monitors, NEW v \in S
  PROVE  [f EXCEPT ![i][m] = v] \in [Instances -> [Monitors -> S]]
<1>1. [f[i] EXCEPT ![m] = v] \in [Monitors -> S]
  OBVIOUS
<1>2. [f EXCEPT ![i][m] = v] = [f EXCEPT ![i] = [f[i] EXCEPT ![m] = v]]
  OBVIOUS
<1> QED
  BY <1>1, <1>2

\* A second taken from a count leaves it within its bounds.
LEMMA Minus1Type == ASSUME NEW b \in Nat, NEW n \in 0..b PROVE Minus1(n) \in 0..b
BY DEF Minus1

LEMMA TypeInit == Init => TypeOK
BY SchedulerAssumption DEF Init, TypeOK

LEMMA TypeStep == TypeOK /\ [Next]_vars => TypeOK'
<1> SUFFICES ASSUME TypeOK, [Next]_vars PROVE TypeOK'
  OBVIOUS
<1> USE SchedulerAssumption DEF TypeOK, lock
<1>1. CASE UNCHANGED vars
  BY <1>1 DEF vars
<1>2. ASSUME NEW i \in Instances, Step(i) PROVE TypeOK'
  <2>1. CASE TryAcquireLeadership(i)
    BY <2>1 DEF TryAcquireLeadership, Lock
  <2>2. CASE BecomeLeader(i)
    BY <2>2 DEF BecomeLeader
  <2>3. CASE BeginRound(i)
    <3>1. Due(i) \in SUBSET Monitors
      BY DEF Due
    <3> QED
      BY <2>3, <3>1 DEF BeginRound, Extend
  <2>4. CASE StepDown(i)
    BY <2>4 DEF StepDown
  <2>5. CASE EndRound(i)
    BY <2>5 DEF EndRound
  <2> QED
    BY <1>2, <2>1, <2>2, <2>3, <2>4, <2>5 DEF Step
<1>3. ASSUME NEW i \in Instances, Return(i) PROVE TypeOK'
  BY <1>3 DEF Return, Abandoned
<1>4. ASSUME NEW i \in Instances, Stop(i) PROVE TypeOK'
  BY <1>4 DEF Stop, Unlock
<1>5. ASSUME NEW i \in Instances, Crash(i) PROVE TypeOK'
  BY <1>5 DEF Crash, Abandoned
<1>6. ASSUME NEW i \in Instances, Start(i) PROVE TypeOK'
  BY <1>6 DEF Start
<1>7. ASSUME NEW i \in Instances, NEW m \in Monitors, Publish(i, m) PROVE TypeOK'
  <2>1. Remaining(i) \in 0..Interval
    BY DEF Remaining
  <2>2. wait' \in [Instances -> [Monitors -> 0..Interval]]
    BY <1>7, <2>1, EntryType DEF Publish
  <2> QED
    BY <1>7, <2>2 DEF Publish
<1>8. ASSUME NEW i \in Instances, NEW m \in Monitors, PublishFails(i, m) PROVE TypeOK'
  BY <1>8 DEF PublishFails
<1>9. ASSUME NEW i \in Instances, NEW m \in Monitors, NEW e \in {"absent", "paused", "active"},
             entry' = [entry EXCEPT ![i][m] = e], wait' = [wait EXCEPT ![i][m] = 0],
             UNCHANGED <<lock, leaders, stopped, loop, todo, age>>
      PROVE  TypeOK'
  <2>1. wait' \in [Instances -> [Monitors -> 0..Interval]]
    BY <1>9, EntryType
  <2>2. entry' \in [Instances -> [Monitors -> {"absent", "paused", "active"}]]
    BY <1>9, EntryType
  <2> QED
    BY <1>9, <2>1, <2>2
<1>10. ASSUME NEW i \in Instances, NEW m \in Monitors, Remove(i, m) PROVE TypeOK'
  BY <1>9, <1>10 DEF Remove
<1>11. ASSUME NEW i \in Instances, NEW m \in Monitors, NEW p \in BOOLEAN, Add(i, m, p) PROVE TypeOK'
  BY <1>9, <1>11 DEF Add
<1>12. CASE Tick
  <2>1. ttl' \in 0..Lease /\ holder' \in Instances \cup {"none", "dead"}
    BY <1>12, Minus1Type DEF Tick, Expire
  <2>2. age' \in [Instances -> 0..MaxAge]
    BY <1>12 DEF Tick, Older
  <2>3. wait' \in [Instances -> [Monitors -> 0..Interval]]
    BY <1>12, Minus1Type DEF Tick
  <2> QED
    BY <1>12, <2>1, <2>2, <2>3 DEF Tick
<1> QED
  BY <1>1, <1>2, <1>3, <1>4, <1>5, <1>6, <1>7, <1>8, <1>10, <1>11, <1>12 DEF Next

\* The state keeps its types: the lease, the age of a round and the wait of a
\* monitor stay within their bounds, whatever fails.
THEOREM SchedulerTypeCorrect == Spec => []TypeOK
BY TypeInit, TypeStep, PTL DEF Spec

-----------------------------------------------------------------------------
(* Mutual exclusion *)

\* A round younger than the lease has it, and of the lease at least what is left
\* when the round's age is taken off.
Fenced ==
  \A i \in Instances \ stopped :
    loop[i] = "round" /\ age[i] < Lease => holder = i /\ ttl + age[i] >= Lease

LEMMA FencedStep == TypeOK /\ Fenced /\ [Next]_vars => Fenced'
<1> SUFFICES ASSUME TypeOK, Fenced, [Next]_vars,
                    NEW j \in Instances, j \notin stopped', loop'[j] = "round", age'[j] < Lease
             PROVE  holder' = j /\ ttl' + age'[j] >= Lease
  BY DEF Fenced
<1> USE SchedulerAssumption DEF TypeOK, lock
<1>0. ASSUME holder' = holder, ttl' = ttl, age'[j] = age[j], loop[j] = "round", j \notin stopped
      PROVE  holder' = j /\ ttl' + age'[j] >= Lease
  BY <1>0 DEF Fenced
<1>1. CASE UNCHANGED vars
  BY <1>0, <1>1 DEF vars
<1>2. ASSUME NEW i \in Instances, Step(i) PROVE holder' = j /\ ttl' + age'[j] >= Lease
  <2>1. CASE TryAcquireLeadership(i)
    BY <2>1 DEF TryAcquireLeadership, Lock, Fenced
  <2>2. CASE BecomeLeader(i)
    BY <1>0, <2>2 DEF BecomeLeader
  <2>3. CASE BeginRound(i)
    <3>1. holder = i /\ holder' = i /\ ttl' = Lease /\ loop[i] = "tick" /\ stopped' = stopped
      BY <2>3 DEF BeginRound, Extend
    <3>2. j = i
      BY <2>3, <3>1 DEF BeginRound, Fenced
    <3> QED
      BY <2>3, <3>1, <3>2 DEF BeginRound
  <2>4. CASE StepDown(i)
    BY <1>0, <2>4 DEF StepDown
  <2>5. CASE EndRound(i)
    BY <1>0, <2>5 DEF EndRound
  <2> QED
    BY <1>2, <2>1, <2>2, <2>3, <2>4, <2>5 DEF Step
<1>3. ASSUME NEW i \in Instances, Return(i) PROVE holder' = j /\ ttl' + age'[j] >= Lease
  BY <1>0, <1>3 DEF Return, Abandoned, Fenced
<1>4. ASSUME NEW i \in Instances, Stop(i) PROVE holder' = j /\ ttl' + age'[j] >= Lease
  BY <1>0, <1>4 DEF Stop, Unlock, Fenced
<1>5. ASSUME NEW i \in Instances, Crash(i) PROVE holder' = j /\ ttl' + age'[j] >= Lease
  BY <1>0, <1>5 DEF Crash, Abandoned, Fenced
<1>6. ASSUME NEW i \in Instances, Start(i) PROVE holder' = j /\ ttl' + age'[j] >= Lease
  BY <1>0, <1>6 DEF Start
<1>7. ASSUME NEW i \in Instances, NEW m \in Monitors,
             Publish(i, m) \/ PublishFails(i, m) \/ Remove(i, m)
      PROVE  holder' = j /\ ttl' + age'[j] >= Lease
  BY <1>0, <1>7 DEF Publish, PublishFails, Remove
<1>8. ASSUME NEW i \in Instances, NEW m \in Monitors, NEW p \in BOOLEAN, Add(i, m, p)
      PROVE  holder' = j /\ ttl' + age'[j] >= Lease
  BY <1>0, <1>8 DEF Add
<1>9. CASE Tick
  <2>1. loop[j] = "round" /\ j \notin stopped /\ age[j] + 1 < Lease /\ age'[j] = age[j] + 1
    BY <1>9 DEF Tick, Older
  <2>2. holder = j /\ ttl + age[j] >= Lease
    BY <2>1 DEF Fenced
  <2>3. ttl >= 2
    BY <2>1, <2>2
  <2> QED
    BY <1>9, <2>1, <2>2, <2>3 DEF Tick, Expire, Minus1
<1> QED
  BY <1>1, <1>2, <1>3, <1>4, <1>5, <1>6, <1>7, <1>8, <1>9 DEF Next

\* Two running instances dispatch at once only if one of them has been in its
\* round for a lease or longer: for any number of instances and monitors,
\* whatever crashes, stops or fails, because a round begins by extending the lease.
THEOREM OneDispatcherAlways == Spec => []OneDispatcher
<1>1. Init => TypeOK /\ Fenced
  BY TypeInit DEF Init, Fenced
<1>2. TypeOK /\ Fenced /\ [Next]_vars => (TypeOK /\ Fenced)'
  BY TypeStep, FencedStep
<1>3. TypeOK /\ Fenced => OneDispatcher
  BY SchedulerAssumption DEF TypeOK, Fenced, OneDispatcher, Dispatching
<1> QED
  BY <1>1, <1>2, <1>3, PTL DEF Spec
=============================================================================
