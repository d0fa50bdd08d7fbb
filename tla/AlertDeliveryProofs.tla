------------------------ MODULE AlertDeliveryProofs ------------------------
(***************************************************************************)
(* The notifier keeps its types, an alert it acknowledges is accounted for  *)
(* on every channel, and no channel hears an alert again but for timeouts,  *)
(* for any number of notifiers, alerts and channels.                        *)
(***************************************************************************)
EXTENDS AlertDelivery, SequenceTheorems, FiniteSetTheorems, TLAPS

\* An alert that may still be delivered has deliveries left, and its timer ran
\* out at most once for each delivery that is over.
Budget(a) ==
  /\ place[a] \in {"none", "ready"} => tries[a] < MaxDeliver
  /\ expired[a] + (IF place[a] = "out" THEN 1 ELSE 0) <= tries[a]

\* An idle notifier's work is blank; a busy one has the alert it works on, and
\* attempts of writeToDLQ left as long as it still makes them.
Phase(n) ==
  /\ work[n].at = "idle" => work[n] = NoWork
  /\ work[n].at # "idle" => inbox[n] # <<>>
  /\ work[n].at \in {"listUser", "send"} => work[n].writes = 0
  /\ work[n].at = "dlq" => work[n].writes < MaxWrites

TypeInv ==
  /\ TypeOK
  /\ \A a \in Alerts : Budget(a)
  /\ \A n \in Notifiers : Phase(n)

Recorded(a, c) == \E row \in failed : row.alert = a /\ c \in row.channels

\* What Handle knows of its channels at each of its steps.
Accounts(n) ==
  /\ work[n].at = "listUser" => \A c \in Channels : work[n].stage[c] = "off"
  /\ \A c \in Channels : work[n].stage[c] = "sent" => heard[Current(n)][c] > 0
  /\ work[n].at \in {"dlq", "ack"} =>
       \A c \in Channels : work[n].stage[c] \in {"off", "sent", "failed"}
  /\ work[n].at = "ack" /\ work[n].writes < MaxWrites =>
       \A c \in Channels : work[n].stage[c] = "failed" => Recorded(Current(n), c)

IInv == TypeInv /\ \A n \in Notifiers : Accounts(n)

-----------------------------------------------------------------------------
(* Steps of Handle: they change the notifier's work, and breakers, rows and *)
(* what is heard only grow.                                                 *)

LEMMA NoWorkType == NoWork \in Work /\ Fresh \in Breaker
<1>1. MaxTries \in Nat /\ MaxFailures \in Nat /\ MaxWrites \in Nat
  BY DeliveryAssumption
<1>2. NoWork \in Work
  <2>1. "idle" \in Steps /\ [c \in Channels |-> "off"] \in [Channels -> Stages]
    BY DEF Steps, Stages
  <2>2. 0 \in 0..MaxWrites /\ [c \in Channels |-> 0] \in [Channels -> 0..MaxTries]
    BY <1>1
  <2> QED BY <2>1, <2>2 DEF NoWork, Work
<1>3. Fresh \in Breaker
  BY <1>1 DEF Fresh, Breaker
<1> QED BY <1>2, <1>3

\* A field of one record in a function of records.
LEMMA WorkUpdate ==
  ASSUME TypeOK, NEW n \in Notifiers
  PROVE  /\ work[n] \in Work
         /\ \A step \in Steps : [work[n] EXCEPT !.at = step] \in Work
         /\ \A c \in Channels, stage \in Stages :
              [work[n] EXCEPT !.stage[c] = stage, !.tried[c] = 0] \in Work
<1>1. work[n] \in Work
  BY DEF TypeOK
<1>2. MaxTries \in Nat
  BY DeliveryAssumption
<1>3. ASSUME NEW step \in Steps PROVE [work[n] EXCEPT !.at = step] \in Work
  BY <1>1 DEF Work
<1>4. ASSUME NEW c \in Channels, NEW stage \in Stages
      PROVE  [work[n] EXCEPT !.stage[c] = stage, !.tried[c] = 0] \in Work
  <2>1. /\ [work[n].stage EXCEPT ![c] = stage] \in [Channels -> Stages]
        /\ [work[n].tried EXCEPT ![c] = 0] \in [Channels -> 0..MaxTries]
    BY <1>1, <1>2 DEF Work
  <2> QED BY <1>1, <2>1 DEF Work
<1> QED BY <1>1, <1>3, <1>4

LEMMA HandleStep ==
  ASSUME IInv, NEW n \in Notifiers, NEW w \in Work,
         work' = [work EXCEPT ![n] = w],
         UNCHANGED InHandle,
         breaker' \in [Notifiers -> [Channels -> Breaker]],
         failed \subseteq failed', failed' \subseteq Row,
         heard' \in [Alerts -> [Channels -> Nat]],
         \A a \in Alerts, c \in Channels : heard[a][c] <= heard'[a][c],
         inbox[n] # <<>>, w.at # "idle",
         w.at \in {"listUser", "send"} => w.writes = 0,
         w.at = "dlq" => w.writes < MaxWrites,
         w.at = "listUser" => \A c \in Channels : w.stage[c] = "off",
         \A c \in Channels : w.stage[c] = "sent" => heard'[Current(n)][c] > 0,
         w.at \in {"dlq", "ack"} =>
           \A c \in Channels : w.stage[c] \in {"off", "sent", "failed"},
         w.at = "ack" /\ w.writes < MaxWrites =>
           \A c \in Channels : w.stage[c] = "failed" =>
             \E row \in failed' : row.alert = Current(n) /\ c \in row.channels
  PROVE  IInv'
<1>1. /\ work \in [Notifiers -> Work]
      /\ inbox \in [Notifiers -> Seq(Alerts)]
  BY DEF IInv, TypeInv, TypeOK
<1>2. work'[n] = w /\ \A v \in Notifiers \ {n} : work'[v] = work[v]
  BY <1>1
<1>3. UNCHANGED <<inbox, place, tries, expired>>
  BY DEF InHandle, stream
<1>4. TypeOK'
  BY <1>1 DEF IInv, TypeInv, TypeOK, InHandle, stream, table
<1>5. \A a \in Alerts : Budget(a)'
  BY <1>3 DEF IInv, TypeInv, Budget
<1>6. \A v \in Notifiers : Phase(v)'
  BY <1>2, <1>3 DEF IInv, TypeInv, Phase
<1>7. ASSUME NEW v \in Notifiers PROVE Accounts(v)'
  <2>1. CASE v = n
    BY <1>2, <1>3, <2>1 DEF Accounts, Current, Recorded
  <2>2. CASE v # n
    <3>1. work'[v] = work[v] /\ inbox'[v] = inbox[v]
      BY <1>2, <1>3, <2>2
    <3>2. Accounts(v) /\ Phase(v)
      BY DEF IInv, TypeInv
    <3>3. ASSUME NEW c \in Channels, work[v].stage[c] = "sent"
          PROVE  heard'[Current(v)][c] > 0
      <4>1. work[v].at # "idle"
        BY <3>2, <3>3 DEF Phase, NoWork
      <4>2. Current(v) \in Alerts
        BY <1>1, <3>2, <4>1, HeadTailProperties DEF Phase, Current
      <4>3. heard[Current(v)][c] > 0 /\ heard[Current(v)][c] <= heard'[Current(v)][c]
        BY <3>2, <3>3, <4>2 DEF Accounts
      <4>4. heard[Current(v)][c] \in Nat /\ heard'[Current(v)][c] \in Nat
        BY <4>2 DEF IInv, TypeInv, TypeOK
      <4> QED BY <4>3, <4>4
    <3> QED BY <3>1, <3>2, <3>3 DEF Accounts, Current, Recorded
  <2> QED BY <2>1, <2>2
<1> QED BY <1>4, <1>5, <1>6, <1>7 DEF IInv, TypeInv

\* A step that only moves the handler on.
LEMMA GotoStep ==
  ASSUME IInv, NEW n \in Notifiers, NEW step \in {"listUser", "send", "dlq", "ack", "nak"},
         Goto(n, step), UNCHANGED <<InHandle, breaker, heard>>,
         failed \subseteq failed', failed' \subseteq Row,
         inbox[n] # <<>>,
         step \in {"listUser", "send", "dlq"} => work[n].writes = 0,
         step = "listUser" => \A c \in Channels : work[n].stage[c] = "off",
         step \in {"dlq", "ack"} =>
           \A c \in Channels : work[n].stage[c] \in {"off", "sent", "failed"},
         step = "ack" /\ work[n].writes < MaxWrites =>
           \A c \in Channels : work[n].stage[c] = "failed" =>
             \E row \in failed' : row.alert = Current(n) /\ c \in row.channels
  PROVE  IInv'
<1> DEFINE w == [work[n] EXCEPT !.at = step]
<1>0. work[n] \in Work /\ step \in Steps /\ MaxWrites \in Nat \ {0}
  BY WorkUpdate, DeliveryAssumption DEF IInv, TypeInv, Steps
<1>1. w \in Work
  BY <1>0, WorkUpdate DEF IInv, TypeInv
<1>2. work' = [work EXCEPT ![n] = w]
  BY DEF Goto
<1>3. w.at = step /\ w.writes = work[n].writes /\ w.stage = work[n].stage
  BY <1>0 DEF Work
<1>4. \A c \in Channels : w.stage[c] = "sent" => heard'[Current(n)][c] > 0
  BY <1>3 DEF IInv, Accounts
<1>5. /\ breaker' \in [Notifiers -> [Channels -> Breaker]]
      /\ heard' \in [Alerts -> [Channels -> Nat]]
  BY DEF IInv, TypeInv, TypeOK
<1>6. \A a \in Alerts, c \in Channels : heard[a][c] <= heard'[a][c]
  BY DEF IInv, TypeInv, TypeOK
<1>7. /\ w.at # "idle"
      /\ w.at \in {"listUser", "send"} => w.writes = 0
      /\ w.at = "dlq" => w.writes < MaxWrites
  BY <1>0, <1>3
<1>8. /\ w.at = "listUser" => \A c \in Channels : w.stage[c] = "off"
      /\ w.at \in {"dlq", "ack"} =>
           \A c \in Channels : w.stage[c] \in {"off", "sent", "failed"}
      /\ w.at = "ack" /\ w.writes < MaxWrites =>
           \A c \in Channels : w.stage[c] = "failed" =>
             \E row \in failed' : row.alert = Current(n) /\ c \in row.channels
  BY <1>3
<1> HIDE DEF w
<1> QED BY <1>1, <1>2, <1>4, <1>5, <1>6, <1>7, <1>8, HandleStep

\* A step of one channel's goroutine.
LEMMA StageStep ==
  ASSUME IInv, NEW n \in Notifiers, NEW c \in Channels, NEW stage \in {"send", "sent", "failed"},
         Stage(n, c, stage), UNCHANGED <<InHandle, failed>>,
         breaker' \in [Notifiers -> [Channels -> Breaker]],
         heard' \in [Alerts -> [Channels -> Nat]],
         \A a \in Alerts, d \in Channels : heard[a][d] <= heard'[a][d],
         work[n].at = "send",
         stage = "sent" => heard'[Current(n)][c] > 0
  PROVE  IInv'
<1> DEFINE w == [work[n] EXCEPT !.stage[c] = stage, !.tried[c] = 0]
<1>a. TypeOK /\ stage \in Stages
  BY DEF IInv, TypeInv, Stages
<1>0. work[n] \in Work /\ w \in Work
  BY <1>a, WorkUpdate
<1>1. work' = [work EXCEPT ![n] = w]
  BY DEF Stage
<1>2. /\ w.at = "send" /\ w.writes = work[n].writes
      /\ w.stage[c] = stage
      /\ \A d \in Channels \ {c} : w.stage[d] = work[n].stage[d]
  BY <1>0 DEF Work
<1>3. inbox[n] # <<>> /\ work[n].writes = 0 /\ failed \subseteq Row
  BY DEF IInv, TypeInv, Phase, TypeOK
<1>4. Current(n) \in Alerts
  BY <1>3, HeadTailProperties DEF Current, IInv, TypeInv, TypeOK
<1>5. ASSUME NEW d \in Channels, w.stage[d] = "sent" PROVE heard'[Current(n)][d] > 0
  <2>1. CASE d = c
    BY <1>2, <1>5, <2>1
  <2>2. CASE d # c
    <3>1. heard[Current(n)][d] > 0
      BY <1>2, <1>5, <2>2 DEF IInv, Accounts
    <3>2. heard[Current(n)][d] \in Nat /\ heard'[Current(n)][d] \in Nat
      BY <1>4 DEF IInv, TypeInv, TypeOK
    <3> QED BY <1>4, <3>1, <3>2
  <2> QED BY <2>1, <2>2
<1> HIDE DEF w
<1> QED BY <1>0, <1>1, <1>2, <1>3, <1>5, HandleStep

-----------------------------------------------------------------------------
(* The actions of Handle.                                                   *)

LEMMA StartGroupStep ==
  ASSUME IInv, NEW n \in Notifiers, NEW channels \in SUBSET Channels,
         StartGroup(n, channels), UNCHANGED <<InHandle, breaker, failed, heard>>,
         inbox[n] # <<>>, work[n].at \in {"idle", "listUser"}
  PROVE  IInv'
<1> DEFINE stage == [c \in Channels |-> IF c \in channels /\ chan[c].enabled THEN "wait" ELSE "off"]
           w == [work[n] EXCEPT !.at = "send", !.stage = stage]
<1>1. work[n] \in Work /\ stage \in [Channels -> Stages]
  BY DEF IInv, TypeInv, TypeOK, Stages
<1>2. w \in Work
  BY <1>1 DEF Work, Steps
<1>3. work' = [work EXCEPT ![n] = w]
  BY DEF StartGroup
<1>4. work[n].writes = 0
  BY DEF IInv, TypeInv, Phase, NoWork
<1>5. /\ w.at = "send" /\ w.writes = 0
      /\ \A c \in Channels : w.stage[c] # "sent"
  BY <1>1, <1>4 DEF Work
<1>6. /\ breaker' \in [Notifiers -> [Channels -> Breaker]]
      /\ heard' \in [Alerts -> [Channels -> Nat]]
      /\ failed \subseteq failed' /\ failed' \subseteq Row
  BY DEF IInv, TypeInv, TypeOK
<1>7. \A a \in Alerts, c \in Channels : heard[a][c] <= heard'[a][c]
  BY DEF IInv, TypeInv, TypeOK
<1> HIDE DEF w
<1> QED BY <1>2, <1>3, <1>5, <1>6, <1>7, HandleStep

LEMMA ListInv ==
  ASSUME IInv, NEW n \in Notifiers, ListForMonitor(n) \/ ListByUserID(n) \/ ListFails(n)
  PROVE  IInv'
<1>1. inbox[n] # <<>> /\ failed \subseteq Row
  BY DEF ListForMonitor, ListByUserID, ListFails, IInv, TypeInv, Phase, TypeOK
<1>2. work[n].at \in {"idle", "listUser"} /\ UNCHANGED <<InHandle, breaker, failed, heard>>
  BY DEF ListForMonitor, ListByUserID, ListFails
<1>3. work[n].writes = 0 /\ \A c \in Channels : work[n].stage[c] = "off"
  BY <1>2 DEF IInv, TypeInv, Phase, Accounts, NoWork
<1>4. CASE \E channels \in SUBSET Channels : StartGroup(n, channels)
  BY <1>1, <1>2, <1>4, StartGroupStep
<1>5. CASE \E step \in {"listUser", "ack", "nak"} : Goto(n, step)
  BY <1>1, <1>2, <1>3, <1>5, GotoStep
<1> QED BY <1>4, <1>5 DEF ListForMonitor, ListByUserID, ListFails

LEMMA SendInv ==
  ASSUME IInv, NEW n \in Notifiers, NEW c \in Channels, Send(n, c)
  PROVE  IInv'
<1>0. /\ work[n].at = "send" /\ inbox[n] # <<>>
      /\ breaker \in [Notifiers -> [Channels -> Breaker]]
      /\ heard \in [Alerts -> [Channels -> Nat]]
  BY DEF Send, StartSender, SendSucceeds, AttemptFails, IInv, TypeInv, Phase, TypeOK
<1>1. Current(n) \in Alerts
  BY <1>0, HeadTailProperties DEF Current, IInv, TypeInv, TypeOK
<1>2. \A a \in Alerts, d \in Channels : heard[a][d] <= heard[a][d]
  BY <1>0
<1>3. CASE StartSender(n, c)
  BY <1>0, <1>2, <1>3, StageStep DEF StartSender
<1>4. CASE SendSucceeds(n, c)
  <2>1. breaker' \in [Notifiers -> [Channels -> Breaker]]
    BY <1>0, <1>4, NoWorkType DEF SendSucceeds, OnSuccess
  <2>2. heard' = [heard EXCEPT ![Current(n)][c] = heard[Current(n)][c] + 1]
    BY <1>4 DEF SendSucceeds
  <2>3. heard' \in [Alerts -> [Channels -> Nat]] /\ heard'[Current(n)][c] > 0
    BY <1>0, <1>1, <2>2
  <2>4. \A a \in Alerts, d \in Channels : heard[a][d] <= heard'[a][d]
    BY <1>0, <1>1, <2>2
  <2> QED BY <1>0, <1>4, <2>1, <2>3, <2>4, StageStep DEF SendSucceeds
<1>5. CASE AttemptFails(n, c) /\ Stage(n, c, "failed")
  <2>1. OnFailure(breaker[n][c]) \in Breaker
    <3>1. breaker[n][c] \in Breaker /\ MaxFailures \in Nat
      BY <1>0, DeliveryAssumption
    <3> QED BY <3>1 DEF OnFailure, Breaker
  <2>2. breaker' \in [Notifiers -> [Channels -> Breaker]]
    <3>1. UNCHANGED breaker \/ breaker' = [breaker EXCEPT ![n][c] = OnFailure(breaker[n][c])]
      BY <1>5 DEF AttemptFails
    <3>2. [breaker[n] EXCEPT ![c] = OnFailure(breaker[n][c])] \in [Channels -> Breaker]
      BY <1>0, <2>1
    <3> QED BY <1>0, <3>1, <3>2
  <2> QED BY <1>0, <1>2, <1>5, <2>2, StageStep DEF AttemptFails
<1>6. CASE /\ UNCHANGED <<InHandle, breaker, failed, heard>>
           /\ work[n].tried[c] + 1 < MaxTries
           /\ work' = [work EXCEPT ![n].tried[c] = @ + 1]
  <2> DEFINE w == [work[n] EXCEPT !.tried[c] = @ + 1]
  <2>1. work[n] \in Work /\ MaxTries \in Nat
    BY DeliveryAssumption DEF IInv, TypeInv, TypeOK
  <2>2. w \in Work /\ w.at = "send" /\ w.writes = work[n].writes /\ w.stage = work[n].stage
    <3>1. work[n].tried[c] \in Nat /\ work[n].tried[c] + 1 \in 0..MaxTries
      BY <1>6, <2>1 DEF Work
    <3>2. [work[n].tried EXCEPT ![c] = @ + 1] \in [Channels -> 0..MaxTries]
      BY <2>1, <3>1 DEF Work
    <3> QED BY <1>0, <2>1, <3>2 DEF Work
  <2>3. work' = [work EXCEPT ![n] = w] /\ work[n].writes = 0 /\ failed \subseteq Row
    BY <1>0, <1>6 DEF IInv, TypeInv, Phase, TypeOK
  <2>4. \A d \in Channels : w.stage[d] = "sent" => heard'[Current(n)][d] > 0
    BY <1>6, <2>2 DEF IInv, Accounts
  <2> HIDE DEF w
  <2> QED BY <1>0, <1>2, <1>6, <2>2, <2>3, <2>4, HandleStep
<1> QED BY <1>3, <1>4, <1>5, <1>6 DEF Send, AttemptFails

LEMMA WaitInv ==
  ASSUME IInv, NEW n \in Notifiers, Wait(n)
  PROVE  IInv'
<1>1. /\ work[n].at = "send" /\ UNCHANGED <<InHandle, breaker, failed, heard>>
      /\ \A c \in Channels : work[n].stage[c] \in {"off", "sent", "failed"}
      /\ Goto(n, Outcome(n))
  BY DEF Wait
<1>2. inbox[n] # <<>> /\ work[n].writes = 0 /\ failed \subseteq Row
  BY <1>1 DEF IInv, TypeInv, Phase, TypeOK
<1>3. Outcome(n) \in {"nak", "dlq", "ack"}
  BY DEF Outcome
<1>4. Outcome(n) = "ack" => \A c \in Channels : work[n].stage[c] # "failed"
  BY DEF Outcome, Failing
<1> HIDE DEF Outcome
<1> QED BY <1>1, <1>2, <1>3, <1>4, GotoStep

LEMMA WriteInv ==
  ASSUME IInv, NEW n \in Notifiers, WriteToDLQ(n) \/ WriteToDLQFails(n)
  PROVE  IInv'
<1>1. work[n].at = "dlq" /\ UNCHANGED <<InHandle, breaker, heard>>
  BY DEF WriteToDLQ, WriteToDLQFails
<1>2. /\ inbox[n] # <<>> /\ work[n].writes < MaxWrites /\ failed \subseteq Row
      /\ \A c \in Channels : work[n].stage[c] \in {"off", "sent", "failed"}
      /\ \A c \in Channels : work[n].stage[c] = "sent" => heard[Current(n)][c] > 0
      /\ work[n] \in Work
  BY <1>1 DEF IInv, TypeInv, Phase, Accounts, TypeOK
<1>3. Current(n) \in Alerts
  BY <1>2, HeadTailProperties DEF Current, IInv, TypeInv, TypeOK
<1>4. CASE WriteToDLQ(n)
  <2>1. /\ failed' = failed \cup {[alert |-> Current(n), channels |-> Failing(n)]}
        /\ Goto(n, "ack")
    BY <1>4 DEF WriteToDLQ
  <2>2. [alert |-> Current(n), channels |-> Failing(n)] \in Row
    BY <1>3 DEF Row, Failing
  <2>3. ASSUME NEW c \in Channels, work[n].stage[c] = "failed"
        PROVE  \E row \in failed' : row.alert = Current(n) /\ c \in row.channels
    <3> DEFINE row == [alert |-> Current(n), channels |-> Failing(n)]
    <3>1. row \in failed' /\ row.alert = Current(n) /\ row.channels = Failing(n)
      BY <2>1
    <3>2. c \in Failing(n)
      BY <2>3 DEF Failing
    <3> QED BY <3>1, <3>2
  <2>4. failed \subseteq failed' /\ failed' \subseteq Row
    BY <1>2, <2>1, <2>2
  <2> QED BY <1>1, <1>2, <2>1, <2>3, <2>4, GotoStep
<1>5. CASE WriteToDLQFails(n)
  <2> DEFINE w == [work[n] EXCEPT !.writes = @ + 1,
                     !.at = IF work[n].writes + 1 < MaxWrites THEN "dlq" ELSE "ack"]
  <2>1. MaxWrites \in Nat /\ work[n].writes + 1 \in 0..MaxWrites
    BY <1>2, DeliveryAssumption DEF Work
  <2>2. /\ w \in Work /\ w.writes = work[n].writes + 1 /\ w.stage = work[n].stage
        /\ w.at = IF work[n].writes + 1 < MaxWrites THEN "dlq" ELSE "ack"
    BY <1>2, <2>1 DEF Work, Steps
  <2>3. work' = [work EXCEPT ![n] = w] /\ UNCHANGED failed
    BY <1>5 DEF WriteToDLQFails
  <2>4. /\ breaker' \in [Notifiers -> [Channels -> Breaker]]
        /\ heard' \in [Alerts -> [Channels -> Nat]]
        /\ heard' = heard
    BY <1>1 DEF IInv, TypeInv, TypeOK
  <2>5. \A a \in Alerts, c \in Channels : heard[a][c] <= heard'[a][c]
    BY <2>4
  <2> HIDE DEF w
  <2> QED BY <1>1, <1>2, <2>2, <2>3, <2>4, <2>5, HandleStep
<1> QED BY <1>4, <1>5

-----------------------------------------------------------------------------
(* Steps of the work queue.                                                 *)

LEMMA RequeuedKeeps ==
  ASSUME TypeInv, NEW a \in Alerts, place[a] = "out", Requeued(a), UNCHANGED tries,
         expired' \in {expired, [expired EXCEPT ![a] = @ + 1]}
  PROVE  /\ place' \in [Alerts -> {"none", "ready", "out", "acked", "dead"}]
         /\ advisory' \in [Notifiers -> SUBSET Alerts]
         /\ expired' \in [Alerts -> 0..MaxDeliver]
         /\ \A b \in Alerts : Budget(b)'
<1>0. /\ MaxDeliver \in Nat
      /\ place \in [Alerts -> {"none", "ready", "out", "acked", "dead"}]
      /\ advisory \in [Notifiers -> SUBSET Alerts]
      /\ tries \in [Alerts -> 0..MaxDeliver]
      /\ expired \in [Alerts -> 0..MaxDeliver]
      /\ \A b \in Alerts : Budget(b)
  BY DeliveryAssumption DEF TypeInv, TypeOK
<1>1. expired[a] + 1 <= tries[a]
  BY <1>0 DEF Budget
<1>2. PICK spot \in {"ready", "dead"} :
         /\ place' = [place EXCEPT ![a] = spot]
         /\ spot = "ready" => tries[a] < MaxDeliver
  BY DEF Requeued
<1>3. place' \in [Alerts -> {"none", "ready", "out", "acked", "dead"}]
  BY <1>0, <1>2
<1>4. advisory' \in [Notifiers -> SUBSET Alerts]
  BY <1>0 DEF Requeued
<1>5. expired' \in [Alerts -> 0..MaxDeliver]
  BY <1>0, <1>1
<1>6. ASSUME NEW b \in Alerts PROVE Budget(b)'
  <2>1. CASE b = a
    <3>1. place'[a] = spot /\ expired'[a] <= tries[a] /\ tries' = tries
      BY <1>0, <1>1, <1>2
    <3>2. expired'[a] \in Nat
      BY <1>5, <1>0
    <3> QED BY <1>2, <2>1, <3>1, <3>2 DEF Budget
  <2>2. CASE b # a
    <3>1. place'[b] = place[b] /\ expired'[b] = expired[b] /\ tries' = tries
      BY <1>0, <1>2, <2>2
    <3>2. Budget(b)
      BY <1>0
    <3> QED BY <3>1, <3>2 DEF Budget
  <2> QED BY <2>1, <2>2
<1> QED BY <1>3, <1>4, <1>5, <1>6

\* The end of a delivery: the notifier's work is blank again.
LEMMA ReturnStep ==
  ASSUME IInv, NEW n \in Notifiers, inbox[n] # <<>>, Return(n),
         place' \in [Alerts -> {"none", "ready", "out", "acked", "dead"}],
         advisory' \in [Notifiers -> SUBSET Alerts],
         \A b \in Alerts : Budget(b)',
         UNCHANGED <<table, tries, expired, breaker, up, crashes, failed, heard>>
  PROVE  IInv'
<1>1. /\ inbox \in [Notifiers -> Seq(Alerts)] /\ work \in [Notifiers -> Work]
      /\ Tail(inbox[n]) \in Seq(Alerts)
  BY HeadTailProperties DEF IInv, TypeInv, TypeOK
<1>2. /\ inbox' = [inbox EXCEPT ![n] = Tail(inbox[n])]
      /\ work' = [work EXCEPT ![n] = NoWork]
  BY DEF Return
<1>3. inbox' \in [Notifiers -> Seq(Alerts)] /\ work' \in [Notifiers -> Work]
  BY <1>1, <1>2, NoWorkType
<1>4. TypeOK'
  BY <1>3 DEF IInv, TypeInv, TypeOK, table
<1>5. ASSUME NEW v \in Notifiers PROVE Phase(v)' /\ Accounts(v)'
  <2>1. CASE v = n
    BY <1>1, <1>2, <2>1 DEF Phase, Accounts, NoWork
  <2>2. CASE v # n
    <3>1. work'[v] = work[v] /\ inbox'[v] = inbox[v]
      BY <1>1, <1>2, <2>2
    <3>2. Phase(v) /\ Accounts(v)
      BY DEF IInv, TypeInv
    <3> QED BY <3>1, <3>2 DEF Phase, Accounts, Current, Recorded
  <2> QED BY <2>1, <2>2
<1> QED BY <1>4, <1>5 DEF IInv, TypeInv

LEMMA ReturnInv ==
  ASSUME IInv, NEW n \in Notifiers, Ack(n) \/ Nak(n)
  PROVE  IInv'
<1>1. work[n].at \in {"ack", "nak"} /\ Return(n)
      /\ UNCHANGED <<table, tries, expired, breaker, up, crashes, failed, heard>>
  BY DEF Ack, Nak
<1>2. /\ inbox[n] # <<>>
      /\ place \in [Alerts -> {"none", "ready", "out", "acked", "dead"}]
      /\ advisory \in [Notifiers -> SUBSET Alerts]
      /\ expired \in [Alerts -> 0..MaxDeliver] /\ tries \in [Alerts -> 0..MaxDeliver]
      /\ \A b \in Alerts : Budget(b)
  BY <1>1 DEF IInv, TypeInv, Phase, TypeOK
<1>3. Current(n) \in Alerts
  BY <1>2, HeadTailProperties DEF Current, IInv, TypeInv, TypeOK
<1>4. CASE Ack(n)
  <2>1. place' = [place EXCEPT ![Current(n)] = "acked"] /\ UNCHANGED advisory
    BY <1>4 DEF Ack
  <2>2. place' \in [Alerts -> {"none", "ready", "out", "acked", "dead"}]
    BY <1>2, <2>1
  <2>3. ASSUME NEW b \in Alerts PROVE Budget(b)'
    <3>1. place'[b] = IF b = Current(n) THEN "acked" ELSE place[b]
      BY <1>2, <2>1
    <3>2. expired[b] \in Nat /\ tries[b] \in Nat /\ Budget(b)
      BY <1>2
    <3> QED BY <1>1, <3>1, <3>2 DEF Budget
  <2> QED BY <1>1, <1>2, <2>1, <2>2, <2>3, ReturnStep
<1>5. CASE Nak(n) /\ place[Current(n)] = "out"
  <2>1. Requeued(Current(n))
    BY <1>5 DEF Nak
  <2>2. /\ place' \in [Alerts -> {"none", "ready", "out", "acked", "dead"}]
        /\ advisory' \in [Notifiers -> SUBSET Alerts]
        /\ \A b \in Alerts : Budget(b)'
    BY <1>1, <1>3, <1>5, <2>1, RequeuedKeeps DEF IInv
  <2> QED BY <1>1, <1>2, <2>2, ReturnStep
<1>6. CASE Nak(n) /\ place[Current(n)] # "out"
  <2>1. UNCHANGED <<place, advisory>>
    BY <1>6 DEF Nak
  <2>2. \A b \in Alerts : Budget(b)'
    BY <1>1, <1>2, <2>1 DEF Budget
  <2> QED BY <1>1, <1>2, <2>1, <2>2, ReturnStep
<1> QED BY <1>4, <1>5, <1>6

\* A step that leaves every handler and what it works on alone.
LEMMA HandlersKept ==
  ASSUME IInv, TypeOK', \A a \in Alerts : Budget(a)', UNCHANGED <<work, heard>>,
         failed \subseteq failed',
         \A n \in Notifiers : inbox[n] # <<>> =>
           inbox'[n] # <<>> /\ Head(inbox'[n]) = Head(inbox[n])
  PROVE  IInv'
<1>1. ASSUME NEW n \in Notifiers PROVE Phase(n)' /\ Accounts(n)'
  <2>1. Phase(n) /\ Accounts(n)
    BY DEF IInv, TypeInv
  <2>2. CASE work[n].at = "idle"
    BY <2>1, <2>2 DEF Phase, Accounts, NoWork
  <2>3. CASE work[n].at # "idle"
    <3>1. inbox[n] # <<>> /\ inbox'[n] # <<>> /\ Current(n)' = Current(n)
      BY <2>1, <2>3 DEF Phase, Current
    <3>2. Phase(n)'
      BY <2>1, <3>1 DEF Phase
    <3>3. Accounts(n)'
      BY <2>1, <3>1 DEF Accounts, Recorded
    <3> QED BY <3>2, <3>3
  <2> QED BY <2>2, <2>3
<1> QED BY <1>1 DEF IInv, TypeInv

LEMMA QueueInv ==
  ASSUME IInv, NEW a \in Alerts, PublishAlert(a) \/ AckTimerExpires(a)
  PROVE  IInv'
<1>0. /\ TypeOK /\ \A b \in Alerts : Budget(b)
      /\ place \in [Alerts -> {"none", "ready", "out", "acked", "dead"}]
      /\ UNCHANGED <<table, tries, inbox, work, breaker, up, crashes, failed, heard>>
  BY DEF IInv, TypeInv, TypeOK, PublishAlert, AckTimerExpires
<1>1. CASE PublishAlert(a)
  <2>1. /\ place[a] = "none" /\ place' = [place EXCEPT ![a] = "ready"]
        /\ UNCHANGED <<expired, advisory>>
    BY <1>1 DEF PublishAlert
  <2>2. place' \in [Alerts -> {"none", "ready", "out", "acked", "dead"}]
    BY <1>0, <2>1
  <2>3. TypeOK'
    BY <1>0, <2>1, <2>2 DEF TypeOK, table
  <2>4. ASSUME NEW b \in Alerts PROVE Budget(b)'
    BY <1>0, <2>1 DEF Budget
  <2> QED BY <1>0, <2>3, <2>4, HandlersKept
<1>2. CASE AckTimerExpires(a)
  <2>1. /\ place[a] = "out" /\ Requeued(a)
        /\ expired' = [expired EXCEPT ![a] = expired[a] + 1]
    BY <1>2 DEF AckTimerExpires
  <2>2. /\ place' \in [Alerts -> {"none", "ready", "out", "acked", "dead"}]
        /\ advisory' \in [Notifiers -> SUBSET Alerts]
        /\ expired' \in [Alerts -> 0..MaxDeliver]
        /\ \A b \in Alerts : Budget(b)'
    BY <1>0, <2>1, RequeuedKeeps DEF IInv
  <2>3. TypeOK'
    BY <1>0, <2>2 DEF TypeOK, table
  <2> QED BY <1>0, <2>2, <2>3, HandlersKept
<1> QED BY <1>1, <1>2

LEMMA DeliverInv ==
  ASSUME IInv, NEW n \in Notifiers, NEW a \in Alerts, Deliver(n, a)
  PROVE  IInv'
<1>1. /\ place[a] = "ready" /\ place' = [place EXCEPT ![a] = "out"]
      /\ tries' = [tries EXCEPT ![a] = tries[a] + 1]
      /\ inbox' = [inbox EXCEPT ![n] = Append(inbox[n], a)]
      /\ UNCHANGED <<table, expired, advisory, work, breaker, up, crashes, failed, heard>>
  BY DEF Deliver
<1>2. /\ TypeOK /\ MaxDeliver \in Nat
      /\ place \in [Alerts -> {"none", "ready", "out", "acked", "dead"}]
      /\ tries \in [Alerts -> 0..MaxDeliver] /\ expired \in [Alerts -> 0..MaxDeliver]
      /\ inbox \in [Notifiers -> Seq(Alerts)]
      /\ \A b \in Alerts : Budget(b)
  BY DeliveryAssumption DEF IInv, TypeInv, TypeOK
<1>3. tries[a] < MaxDeliver /\ expired[a] <= tries[a]
  <2>1. Budget(a) /\ place[a] = "ready" /\ expired[a] \in Nat /\ tries[a] \in Nat
    BY <1>1, <1>2
  <2>2. expired[a] + 0 <= tries[a]
    BY <2>1 DEF Budget
  <2> QED BY <2>1, <2>2 DEF Budget
<1>4. /\ place' \in [Alerts -> {"none", "ready", "out", "acked", "dead"}]
      /\ tries' \in [Alerts -> 0..MaxDeliver]
  BY <1>1, <1>2, <1>3
<1>5. inbox' \in [Notifiers -> Seq(Alerts)]
  BY <1>1, <1>2, AppendProperties
<1>6. TypeOK'
  BY <1>1, <1>2, <1>4, <1>5 DEF TypeOK, table
<1>7. ASSUME NEW b \in Alerts PROVE Budget(b)'
  <2>1. CASE b = a
    <3>1. place'[a] = "out" /\ tries'[a] = tries[a] + 1 /\ expired'[a] = expired[a]
      BY <1>1, <1>2
    <3>2. tries[a] \in Nat /\ expired[a] \in Nat
      BY <1>2
    <3> QED BY <1>3, <2>1, <3>1, <3>2 DEF Budget
  <2>2. CASE b # a
    BY <1>1, <1>2, <2>2 DEF Budget
  <2> QED BY <2>1, <2>2
<1>8. ASSUME NEW v \in Notifiers, inbox[v] # <<>>
      PROVE  inbox'[v] # <<>> /\ Head(inbox'[v]) = Head(inbox[v])
  <2>1. CASE v = n
    BY <1>1, <1>2, <1>8, <2>1, AppendProperties, HeadTailAppend
  <2>2. CASE v # n
    BY <1>1, <1>2, <1>8, <2>2
  <2> QED BY <2>1, <2>2
<1> QED BY <1>1, <1>6, <1>7, <1>8, HandlersKept

LEMMA EditInv ==
  ASSUME IInv, EditChannels
  PROVE  IInv'
<1>1. PICK c \in Channels, row \in Channel : Edit(c, row)
  <2>1. PICK c \in Channels :
          \/ CreateChannel(c) \/ UpdateChannel(c) \/ DeleteChannel(c)
          \/ BindChannel(c) \/ UnbindChannel(c)
    BY DEF EditChannels
  <2>2. chan[c] \in Channel
    BY DEF IInv, TypeInv, TypeOK
  <2>3. CASE CreateChannel(c)
    BY <2>3 DEF CreateChannel, Channel
  <2>4. CASE UpdateChannel(c)
    BY <2>2, <2>4 DEF UpdateChannel, Channel
  <2>5. CASE DeleteChannel(c)
    BY <2>2, <2>5 DEF DeleteChannel, Channel
  <2>6. CASE BindChannel(c) \/ UnbindChannel(c)
    BY <2>2, <2>6 DEF BindChannel, UnbindChannel, Channel
  <2> QED BY <2>1, <2>3, <2>4, <2>5, <2>6
<1>2. /\ edits < MaxEdits /\ edits' = edits + 1
      /\ chan' = [chan EXCEPT ![c] = row]
      /\ UNCHANGED <<stream, inbox, advisory, work, breaker, up, crashes, failed, heard>>
  BY <1>1 DEF Edit
<1>3. chan' \in [Channels -> Channel] /\ edits' \in 0..MaxEdits
  BY <1>2, DeliveryAssumption DEF IInv, TypeInv, TypeOK
<1>4. TypeOK'
  BY <1>2, <1>3 DEF IInv, TypeInv, TypeOK, stream
<1>5. \A a \in Alerts : Budget(a)'
  BY <1>2 DEF IInv, TypeInv, Budget, stream
<1> QED BY <1>2, <1>4, <1>5, HandlersKept

LEMMA NotifierInv ==
  ASSUME IInv, NEW n \in Notifiers,
         \/ \E a \in Alerts : RecordAdvisory(n, a)
         \/ \E c \in Channels : BreakerTimeout(n, c) \/ Evict(n, c)
         \/ Restart(n)
  PROVE  IInv'
<1>1. UNCHANGED <<table, stream, inbox, work, crashes, heard>> /\ failed \subseteq failed'
  BY DEF RecordAdvisory, BreakerTimeout, Evict, Restart, InHandle
<1>2. /\ breaker \in [Notifiers -> [Channels -> Breaker]]
      /\ advisory \in [Notifiers -> SUBSET Alerts] /\ failed \subseteq Row /\ up \subseteq Notifiers
  BY DEF IInv, TypeInv, TypeOK
<1>3. breaker' \in [Notifiers -> [Channels -> Breaker]]
  <2>1. CASE UNCHANGED breaker
    BY <1>2, <2>1
  <2>2. CASE \E c \in Channels : BreakerTimeout(n, c)
    <3>1. PICK c \in Channels : breaker' = [breaker EXCEPT ![n][c].state = "half"]
      BY <2>2 DEF BreakerTimeout
    <3>2. [breaker[n][c] EXCEPT !.state = "half"] \in Breaker
      BY <1>2 DEF Breaker
    <3>3. [breaker[n] EXCEPT ![c] = [breaker[n][c] EXCEPT !.state = "half"]]
            \in [Channels -> Breaker]
      BY <1>2, <3>2
    <3> QED BY <1>2, <3>1, <3>3
  <2>3. CASE \E c \in Channels : Evict(n, c)
    <3>1. PICK c \in Channels : breaker' = [breaker EXCEPT ![n][c] = Fresh]
      BY <2>3 DEF Evict
    <3> QED BY <1>2, <3>1, NoWorkType
  <2> QED BY <2>1, <2>2, <2>3 DEF RecordAdvisory, Restart
<1>4. /\ advisory' \in [Notifiers -> SUBSET Alerts]
      /\ failed' \subseteq Row /\ up' \subseteq Notifiers
  BY <1>2 DEF RecordAdvisory, BreakerTimeout, Evict, Restart, InHandle, Row
<1>5. TypeOK'
  BY <1>1, <1>3, <1>4 DEF IInv, TypeInv, TypeOK, table, stream
<1>6. \A a \in Alerts : Budget(a)'
  BY <1>1 DEF IInv, TypeInv, Budget, stream
<1> QED BY <1>1, <1>5, <1>6, HandlersKept

LEMMA CrashInv ==
  ASSUME IInv, NEW n \in Notifiers, Crash(n)
  PROVE  IInv'
<1>1. /\ crashes < MaxCrashes /\ crashes' = crashes + 1 /\ up' = up \ {n}
      /\ work' = [work EXCEPT ![n] = NoWork]
      /\ inbox' = [inbox EXCEPT ![n] = <<>>]
      /\ advisory' = [advisory EXCEPT ![n] = {}]
      /\ breaker' = [breaker EXCEPT ![n] = [c \in Channels |-> Fresh]]
      /\ UNCHANGED <<table, stream, failed, heard>>
  BY DEF Crash
<1>2. /\ work \in [Notifiers -> Work] /\ inbox \in [Notifiers -> Seq(Alerts)]
      /\ advisory \in [Notifiers -> SUBSET Alerts]
      /\ breaker \in [Notifiers -> [Channels -> Breaker]]
      /\ up \subseteq Notifiers /\ crashes \in 0..MaxCrashes /\ MaxCrashes \in Nat
  BY DeliveryAssumption DEF IInv, TypeInv, TypeOK
<1>3. /\ work' \in [Notifiers -> Work] /\ inbox' \in [Notifiers -> Seq(Alerts)]
      /\ advisory' \in [Notifiers -> SUBSET Alerts]
      /\ breaker' \in [Notifiers -> [Channels -> Breaker]]
      /\ up' \subseteq Notifiers /\ crashes' \in 0..MaxCrashes
  BY <1>1, <1>2, NoWorkType
<1>4. TypeOK'
  BY <1>1, <1>3 DEF IInv, TypeInv, TypeOK, table, stream
<1>5. \A a \in Alerts : Budget(a)'
  BY <1>1 DEF IInv, TypeInv, Budget, stream
<1>6. ASSUME NEW v \in Notifiers PROVE Phase(v)' /\ Accounts(v)'
  <2>1. CASE v = n
    BY <1>1, <1>2, <2>1 DEF Phase, Accounts, NoWork
  <2>2. CASE v # n
    <3>1. work'[v] = work[v] /\ inbox'[v] = inbox[v]
      BY <1>1, <1>2, <2>2
    <3>2. Phase(v) /\ Accounts(v)
      BY DEF IInv, TypeInv
    <3> QED BY <1>1, <3>1, <3>2 DEF Phase, Accounts, Current, Recorded
  <2> QED BY <2>1, <2>2
<1> QED BY <1>4, <1>5, <1>6 DEF IInv, TypeInv

-----------------------------------------------------------------------------
LEMMA InvInit == Init => IInv
<1> SUFFICES ASSUME Init PROVE IInv
  OBVIOUS
<1>1. MaxDeliver \in Nat \ {0} /\ MaxEdits \in Nat /\ MaxCrashes \in Nat
  BY DeliveryAssumption
<1>2. chan \in [Channels -> Channel]
  <2>1. {Absent} \cup [state : {"live"}, enabled : {TRUE}, bound : BOOLEAN] \subseteq Channel
    <3>1. Absent \in Channel
      BY DEF Absent, Channel
    <3>2. ASSUME NEW x \in [state : {"live"}, enabled : {TRUE}, bound : BOOLEAN]
          PROVE  x \in Channel
      <4>1. /\ x = [state |-> x.state, enabled |-> x.enabled, bound |-> x.bound]
            /\ x.state = "live" /\ x.enabled \in BOOLEAN /\ x.bound \in BOOLEAN
        BY <3>2
      <4> QED BY <4>1 DEF Channel
    <3> QED BY <3>1, <3>2
  <2> QED BY <2>1 DEF Init
<1>3. TypeOK
  BY <1>1, <1>2, NoWorkType DEF Init, TypeOK
<1>4. \A a \in Alerts : Budget(a)
  BY <1>1 DEF Init, Budget
<1>5. \A n \in Notifiers : Phase(n) /\ Accounts(n)
  BY DEF Init, Phase, Accounts, NoWork
<1> QED BY <1>3, <1>4, <1>5 DEF IInv, TypeInv

LEMMA InvStep == IInv /\ [Next]_vars => IInv'
<1> SUFFICES ASSUME IInv, [Next]_vars PROVE IInv'
  OBVIOUS
<1>1. CASE EditChannels
  BY <1>1, EditInv
<1>2. ASSUME NEW a \in Alerts, PublishAlert(a) \/ AckTimerExpires(a) PROVE IInv'
  BY <1>2, QueueInv
<1>3. ASSUME NEW n \in Notifiers, Handle(n) PROVE IInv'
  BY <1>3, ListInv, SendInv, WaitInv, WriteInv, ReturnInv DEF Handle
<1>4. ASSUME NEW n \in Notifiers, NEW a \in Alerts, Deliver(n, a) PROVE IInv'
  BY <1>4, DeliverInv
<1>5. ASSUME NEW n \in Notifiers,
             \/ \E a \in Alerts : RecordAdvisory(n, a)
             \/ \E c \in Channels : BreakerTimeout(n, c) \/ Evict(n, c)
             \/ Restart(n)
      PROVE IInv'
  BY <1>5, NotifierInv
<1>6. ASSUME NEW n \in Notifiers, Crash(n) PROVE IInv'
  BY <1>6, CrashInv
<1>7. CASE UNCHANGED vars
  <2>1. /\ TypeOK' /\ UNCHANGED <<work, heard, failed, inbox, place, tries, expired>>
    BY <1>7 DEF vars, table, stream, IInv, TypeInv, TypeOK
  <2>2. \A a \in Alerts : Budget(a)'
    BY <2>1 DEF IInv, TypeInv, Budget
  <2> QED BY <2>1, <2>2, HandlersKept
<1> QED BY <1>1, <1>2, <1>3, <1>4, <1>5, <1>6, <1>7 DEF Next

LEMMA Invariant == Spec => []IInv
BY InvInit, InvStep, PTL DEF Spec

\* Alerts, deliveries, handlers, breakers and rows stay well-formed; in
\* particular no alert is delivered more than MaxDeliver times and its timer
\* never runs out more often than it was delivered.
THEOREM DeliveryTypeCorrect == Spec => []TypeOK
<1>1. IInv => TypeOK
  BY DEF IInv, TypeInv
<1> QED BY <1>1, Invariant, PTL

\* Handle acknowledges an alert only when each channel it set out to notify has
\* heard it or is in failed_alerts, unless writeToDLQ failed on all attempts:
\* for any number of notifiers, channels and alerts, with crashes, redelivery of
\* alerts that are still being handled, and channels edited meanwhile.
THEOREM AckAccountsForAllAlways == Spec => []AckAccountsForAll
<1>1. IInv => AckAccountsForAll
  <2> SUFFICES ASSUME IInv, NEW n \in Notifiers, NEW c \in Channels,
                      work[n].at = "ack", work[n].writes < MaxWrites
               PROVE  \/ work[n].stage[c] = "off"
                      \/ heard[Current(n)][c] > 0
                      \/ \E row \in failed : row.alert = Current(n) /\ c \in row.channels
    BY DEF AckAccountsForAll
  <2> QED BY DEF IInv, Accounts, Recorded
<1> QED BY <1>1, Invariant, PTL

-----------------------------------------------------------------------------
(* How often a channel hears an alert.                                      *)

\* The deliveries of an alert, by notifier and place in its inbox, in which a
\* channel has not heard it.
Unsent(a, c) ==
  {x \in Notifiers \X (Nat \ {0}) :
     /\ x[2] \in DOMAIN inbox[x[1]] /\ inbox[x[1]][x[2]] = a
     /\ ~(x[2] = 1 /\ work[x[1]].stage[c] = "sent")}

\* Whether the server may hand out an alert without a further timeout; an alert
\* given up counts as one it could have handed out again.
Back(a) == IF place[a] \in {"none", "ready", "dead"} THEN 1 ELSE 0

\* What was heard, what may still be heard of the deliveries under way and what
\* a delivery to come may add: one in all, and one more for each timeout.
HeardOnce(a, c) ==
  /\ IsFiniteSet(Unsent(a, c))
  /\ heard[a][c] + Cardinality(Unsent(a, c)) + Back(a) <= 1 + expired[a]

NakSentNobody(n) ==
  work[n].at = "nak" => \A c \in Channels : work[n].stage[c] # "sent"

HInv ==
  /\ IInv
  /\ \A n \in Notifiers : NakSentNobody(n)
  /\ \A a \in Alerts, c \in Channels : HeardOnce(a, c)

LEMMA HeardTypes ==
  ASSUME IInv, NEW a \in Alerts, NEW c \in Channels
  PROVE  heard[a][c] \in Nat /\ expired[a] \in Nat /\ Back(a) \in 0..1
<1>1. expired[a] \in 0..MaxDeliver /\ MaxDeliver \in Nat
  BY DeliveryAssumption DEF IInv, TypeInv, TypeOK
<1> QED BY <1>1 DEF IInv, TypeInv, TypeOK, Back

LEMMA HeardTypesNext ==
  ASSUME IInv', NEW a \in Alerts, NEW c \in Channels
  PROVE  heard'[a][c] \in Nat /\ expired'[a] \in Nat /\ Back(a)' \in 0..1
<1>1. expired'[a] \in 0..MaxDeliver /\ MaxDeliver \in Nat
  BY DeliveryAssumption DEF IInv, TypeInv, TypeOK
<1> QED BY <1>1 DEF IInv, TypeInv, TypeOK, Back

\* A step that lets nobody hear an alert more often.
LEMMA HeardOnceKept ==
  ASSUME IInv, IInv', NEW a \in Alerts, NEW c \in Channels, HeardOnce(a, c),
         Unsent(a, c)' \subseteq Unsent(a, c), heard'[a][c] = heard[a][c],
         Back(a)' + expired[a] <= Back(a) + expired'[a]
  PROVE  HeardOnce(a, c)'
<1>1. /\ IsFiniteSet(Unsent(a, c))
      /\ heard[a][c] + Cardinality(Unsent(a, c)) + Back(a) <= 1 + expired[a]
  BY DEF HeardOnce
<1>2. /\ IsFiniteSet(Unsent(a, c)')
      /\ Cardinality(Unsent(a, c)') <= Cardinality(Unsent(a, c))
      /\ Cardinality(Unsent(a, c)) \in Nat /\ Cardinality(Unsent(a, c)') \in Nat
  BY <1>1, FS_Subset, FS_CardinalityType
<1>3. /\ heard[a][c] \in Nat /\ expired[a] \in Nat /\ Back(a) \in 0..1
      /\ heard'[a][c] \in Nat /\ expired'[a] \in Nat /\ Back(a)' \in 0..1
  BY HeardTypes, HeardTypesNext
<1>4. heard'[a][c] + Cardinality(Unsent(a, c)') + Back(a)' <= 1 + expired'[a]
  BY <1>1, <1>2, <1>3
<1> QED BY <1>2, <1>4 DEF HeardOnce

LEMMA HeardKept ==
  ASSUME HInv, IInv', UNCHANGED heard,
         \A a \in Alerts : Back(a)' + expired[a] <= Back(a) + expired'[a],
         \A n \in Notifiers : inbox'[n] \in {inbox[n], <<>>},
         \A n \in Notifiers, c \in Channels :
           inbox'[n] # <<>> /\ work[n].stage[c] = "sent" => work'[n].stage[c] = "sent",
         \A n \in Notifiers : NakSentNobody(n)'
  PROVE  HInv'
<1>1. ASSUME NEW a \in Alerts, NEW c \in Channels PROVE HeardOnce(a, c)'
  <2>1. Unsent(a, c)' \subseteq Unsent(a, c)
    <3> SUFFICES ASSUME NEW x \in Unsent(a, c)' PROVE x \in Unsent(a, c)
      OBVIOUS
    <3>1. /\ x \in Notifiers \X (Nat \ {0})
          /\ x[2] \in DOMAIN inbox'[x[1]] /\ inbox'[x[1]][x[2]] = a
          /\ ~(x[2] = 1 /\ work'[x[1]].stage[c] = "sent")
      BY DEF Unsent
    <3>2. x[1] \in Notifiers /\ inbox'[x[1]] # <<>>
      BY <3>1
    <3>3. inbox'[x[1]] = inbox[x[1]]
      BY <3>2
    <3> QED BY <3>1, <3>2, <3>3 DEF Unsent
  <2> QED BY <2>1, HeardOnceKept DEF HInv
<1> QED BY <1>1 DEF HInv

LEMMA SendHeard ==
  ASSUME HInv, IInv', NEW n \in Notifiers, NEW c \in Channels, SendSucceeds(n, c)
  PROVE  HInv'
<1>1. /\ work[n].at = "send" /\ work[n].stage[c] = "send"
      /\ work' = [work EXCEPT ![n] = [@ EXCEPT !.stage[c] = "sent", !.tried[c] = 0]]
      /\ heard' = [heard EXCEPT ![Current(n)][c] = heard[Current(n)][c] + 1]
      /\ UNCHANGED <<inbox, place, expired>>
  BY DEF SendSucceeds, Stage, InHandle, stream
<1>2. /\ work \in [Notifiers -> Work] /\ inbox \in [Notifiers -> Seq(Alerts)]
      /\ heard \in [Alerts -> [Channels -> Nat]]
      /\ inbox[n] # <<>>
  BY <1>1 DEF HInv, IInv, TypeInv, TypeOK, Phase
<1>3. /\ Current(n) \in Alerts /\ Current(n) = inbox[n][1] /\ 1 \in DOMAIN inbox[n]
  BY <1>2, HeadTailProperties DEF Current
<1>4. /\ work'[n].at = "send" /\ work'[n].stage[c] = "sent"
      /\ \A d \in Channels \ {c} : work'[n].stage[d] = work[n].stage[d]
      /\ \A v \in Notifiers \ {n} : work'[v] = work[v]
  BY <1>1, <1>2 DEF Work
<1>5. \A v \in Notifiers : NakSentNobody(v)'
  BY <1>4 DEF HInv, NakSentNobody
<1>6. ASSUME NEW a \in Alerts, NEW d \in Channels PROVE HeardOnce(a, d)'
  <2>1. /\ IsFiniteSet(Unsent(a, d))
        /\ heard[a][d] + Cardinality(Unsent(a, d)) + Back(a) <= 1 + expired[a]
    BY DEF HInv, HeardOnce
  <2>2. /\ heard[a][d] \in Nat /\ expired[a] \in Nat /\ Back(a) \in 0..1
        /\ expired'[a] = expired[a] /\ Back(a)' = Back(a)
    BY <1>1, HeardTypes DEF HInv, Back
  <2>3. Unsent(a, d)' \subseteq Unsent(a, d)
    BY <1>1, <1>4 DEF Unsent
  <2>4. CASE a = Current(n) /\ d = c
    <3>1. <<n, 1>> \in Unsent(a, d) /\ <<n, 1>> \notin Unsent(a, d)'
      BY <1>1, <1>3, <1>4, <2>4 DEF Unsent
    <3>2. Unsent(a, d)' \subseteq Unsent(a, d) \ {<<n, 1>>}
      BY <2>3, <3>1
    <3>3. /\ IsFiniteSet(Unsent(a, d) \ {<<n, 1>>})
          /\ Cardinality(Unsent(a, d) \ {<<n, 1>>}) = Cardinality(Unsent(a, d)) - 1
      BY <2>1, <3>1, FS_RemoveElement
    <3>4. /\ IsFiniteSet(Unsent(a, d)') /\ Cardinality(Unsent(a, d)') \in Nat
          /\ Cardinality(Unsent(a, d)') <= Cardinality(Unsent(a, d)) - 1
          /\ Cardinality(Unsent(a, d)) \in Nat
      BY <2>1, <3>2, <3>3, FS_Subset, FS_CardinalityType
    <3>5. heard'[a][d] = heard[a][d] + 1
      BY <1>1, <1>2, <2>4
    <3>6. heard'[a][d] + Cardinality(Unsent(a, d)') + Back(a)' <= 1 + expired'[a]
      BY <2>1, <2>2, <3>4, <3>5
    <3> QED BY <3>4, <3>6 DEF HeardOnce
  <2>5. CASE ~(a = Current(n) /\ d = c)
    <3>1. heard'[a][d] = heard[a][d]
      BY <1>1, <1>2, <2>5
    <3>2. Back(a)' + expired[a] <= Back(a) + expired'[a]
      BY <2>2
    <3> QED BY <2>3, <3>1, <3>2, HeardOnceKept DEF HInv
  <2> QED BY <2>4, <2>5
<1> QED BY <1>5, <1>6 DEF HInv

\* The delivery that is handed out may add one, as the alert no longer may.
LEMMA DeliverHeard ==
  ASSUME HInv, IInv', NEW n \in Notifiers, NEW a \in Alerts, Deliver(n, a)
  PROVE  HInv'
<1> DEFINE new == <<n, Len(inbox[n]) + 1>>
<1>1. /\ place[a] = "ready" /\ place' = [place EXCEPT ![a] = "out"]
      /\ inbox' = [inbox EXCEPT ![n] = Append(inbox[n], a)]
      /\ UNCHANGED <<expired, work, heard>>
  BY DEF Deliver
<1>2. /\ inbox \in [Notifiers -> Seq(Alerts)]
      /\ place \in [Alerts -> {"none", "ready", "out", "acked", "dead"}]
  BY DEF HInv, IInv, TypeInv, TypeOK
<1>3. /\ DOMAIN inbox'[n] = DOMAIN inbox[n] \cup {Len(inbox[n]) + 1}
      /\ inbox'[n][Len(inbox[n]) + 1] = a
      /\ \A k \in DOMAIN inbox[n] : inbox'[n][k] = inbox[n][k]
      /\ \A v \in Notifiers \ {n} : inbox'[v] = inbox[v]
  <2>1. inbox[n] \in Seq(Alerts) /\ inbox'[n] = Append(inbox[n], a)
    BY <1>1, <1>2
  <2>2. /\ Len(inbox'[n]) = Len(inbox[n]) + 1
        /\ inbox'[n][Len(inbox[n]) + 1] = a
        /\ \A k \in 1..Len(inbox[n]) : inbox'[n][k] = inbox[n][k]
        /\ Len(inbox[n]) \in Nat
    BY <2>1, AppendProperties
  <2>3. /\ DOMAIN inbox[n] = 1..Len(inbox[n])
        /\ DOMAIN inbox'[n] = 1..(Len(inbox[n]) + 1)
    BY <2>1, <2>2, AppendProperties, LenProperties
  <2> QED BY <1>1, <1>2, <2>2, <2>3
<1>4. \A v \in Notifiers : NakSentNobody(v)'
  BY <1>1 DEF HInv, NakSentNobody
<1>5. ASSUME NEW b \in Alerts, NEW c \in Channels PROVE HeardOnce(b, c)'
  <2>1. /\ IsFiniteSet(Unsent(b, c))
        /\ heard[b][c] + Cardinality(Unsent(b, c)) + Back(b) <= 1 + expired[b]
    BY DEF HInv, HeardOnce
  <2>2. /\ heard[b][c] \in Nat /\ expired[b] \in Nat /\ Back(b) \in 0..1
        /\ expired'[b] = expired[b] /\ heard'[b][c] = heard[b][c]
    BY <1>1, HeardTypes DEF HInv
  <2>3. CASE b = a
    <3>1. Unsent(b, c)' \subseteq Unsent(b, c) \cup {new}
      <4> SUFFICES ASSUME NEW x \in Unsent(b, c)', x # new PROVE x \in Unsent(b, c)
        OBVIOUS
      <4>1. /\ x \in Notifiers \X (Nat \ {0})
            /\ x[2] \in DOMAIN inbox'[x[1]] /\ inbox'[x[1]][x[2]] = b
            /\ ~(x[2] = 1 /\ work[x[1]].stage[c] = "sent")
        BY <1>1 DEF Unsent
      <4>2. x = <<x[1], x[2]>>
        BY <4>1
      <4>3. x[2] \in DOMAIN inbox[x[1]] /\ inbox[x[1]][x[2]] = b
        BY <1>3, <4>1, <4>2
      <4> QED BY <4>1, <4>3 DEF Unsent
    <3>2. /\ IsFiniteSet(Unsent(b, c)') /\ Cardinality(Unsent(b, c)') \in Nat
          /\ Cardinality(Unsent(b, c)) \in Nat
          /\ Cardinality(Unsent(b, c)') <= Cardinality(Unsent(b, c)) + 1
      <4> DEFINE grown == Unsent(b, c) \cup {new}
      <4>1. IsFiniteSet(grown) /\ Cardinality(grown) <= Cardinality(Unsent(b, c)) + 1
        <5>1. Cardinality(Unsent(b, c)) \in Nat
          BY <2>1, FS_CardinalityType
        <5>2. /\ IsFiniteSet(grown)
              /\ \/ Cardinality(grown) = Cardinality(Unsent(b, c))
                 \/ Cardinality(grown) = Cardinality(Unsent(b, c)) + 1
          BY <2>1, FS_AddElement
        <5> HIDE DEF grown
        <5> QED BY <5>1, <5>2
      <4>2. IsFiniteSet(Unsent(b, c)') /\ Cardinality(Unsent(b, c)') <= Cardinality(grown)
        BY <3>1, <4>1, FS_Subset
      <4> HIDE DEF grown
      <4>3. /\ Cardinality(Unsent(b, c)) \in Nat /\ Cardinality(Unsent(b, c)') \in Nat
            /\ Cardinality(grown) \in Nat
        BY <2>1, <4>1, <4>2, FS_CardinalityType
      <4> QED BY <4>1, <4>2, <4>3
    <3>3. Back(b) = 1 /\ Back(b)' = 0
      BY <1>1, <1>2, <2>3 DEF Back
    <3>4. heard'[b][c] + Cardinality(Unsent(b, c)') + Back(b)' <= 1 + expired'[b]
      BY <2>1, <2>2, <3>2, <3>3
    <3> QED BY <3>2, <3>4 DEF HeardOnce
  <2>4. CASE b # a
    <3>1. Unsent(b, c)' \subseteq Unsent(b, c)
      <4> SUFFICES ASSUME NEW x \in Unsent(b, c)' PROVE x \in Unsent(b, c)
        OBVIOUS
      <4>1. /\ x \in Notifiers \X (Nat \ {0})
            /\ x[2] \in DOMAIN inbox'[x[1]] /\ inbox'[x[1]][x[2]] = b
            /\ ~(x[2] = 1 /\ work[x[1]].stage[c] = "sent")
        BY <1>1 DEF Unsent
      <4>2. x[2] \in DOMAIN inbox[x[1]] /\ inbox[x[1]][x[2]] = b
        BY <1>3, <2>4, <4>1
      <4> QED BY <4>1, <4>2 DEF Unsent
    <3>2. Back(b)' = Back(b) /\ Back(b)' + expired[b] <= Back(b) + expired'[b]
      BY <1>1, <1>2, <2>2, <2>4 DEF Back
    <3> QED BY <2>2, <3>1, <3>2, HeardOnceKept DEF HInv
  <2> QED BY <2>3, <2>4
<1> QED BY <1>4, <1>5 DEF HInv

\* The end of a delivery: the later ones move up.
LEMMA ReturnUnsent ==
  ASSUME HInv, NEW n \in Notifiers, inbox[n] # <<>>, Return(n),
         NEW a \in Alerts, NEW c \in Channels
  PROVE  /\ IsFiniteSet(Unsent(a, c)')
         /\ Cardinality(Unsent(a, c)') <= Cardinality(Unsent(a, c) \ {<<n, 1>>})
<1> DEFINE S == Unsent(a, c)'
           T == Unsent(a, c) \ {<<n, 1>>}
           f == [x \in S |-> IF x[1] = n THEN <<n, x[2] + 1>> ELSE x]
<1>1. /\ inbox \in [Notifiers -> Seq(Alerts)] /\ work \in [Notifiers -> Work]
      /\ inbox' = [inbox EXCEPT ![n] = Tail(inbox[n])]
      /\ work' = [work EXCEPT ![n] = NoWork]
  BY DEF HInv, IInv, TypeInv, TypeOK, Return
<1>2. /\ \A k \in DOMAIN inbox'[n] : k + 1 \in DOMAIN inbox[n] /\ inbox'[n][k] = inbox[n][k + 1]
      /\ \A v \in Notifiers \ {n} : inbox'[v] = inbox[v] /\ work'[v] = work[v]
  <2>1. inbox[n] \in Seq(Alerts) /\ inbox'[n] = Tail(inbox[n])
    BY <1>1
  <2>2. /\ Len(inbox'[n]) = Len(inbox[n]) - 1 /\ Len(inbox[n]) \in Nat
        /\ \A k \in 1..Len(inbox'[n]) : inbox'[n][k] = inbox[n][k + 1]
        /\ DOMAIN inbox[n] = 1..Len(inbox[n]) /\ DOMAIN inbox'[n] = 1..Len(inbox'[n])
    BY <2>1, HeadTailProperties
  <2> QED BY <1>1, <2>2
<1>3. ASSUME NEW x \in S PROVE f[x] \in T
  <2>1. /\ x \in Notifiers \X (Nat \ {0}) /\ x = <<x[1], x[2]>>
        /\ x[2] \in DOMAIN inbox'[x[1]] /\ inbox'[x[1]][x[2]] = a
        /\ ~(x[2] = 1 /\ work'[x[1]].stage[c] = "sent")
    BY <1>3 DEF Unsent
  <2>2. CASE x[1] = n
    <3> DEFINE y == <<n, x[2] + 1>>
    <3>1. /\ y \in Notifiers \X (Nat \ {0}) /\ y[1] = n /\ y[2] = x[2] + 1 /\ y[2] # 1
      BY <2>1
    <3>2. y[2] \in DOMAIN inbox[n] /\ inbox[n][y[2]] = a
      BY <1>2, <2>1, <2>2, <3>1
    <3>3. y \in Unsent(a, c) /\ y # <<n, 1>>
      BY <3>1, <3>2 DEF Unsent
    <3> QED BY <2>2, <3>3
  <2>3. CASE x[1] # n
    <3>1. x \in Unsent(a, c)
      BY <1>2, <2>1, <2>3 DEF Unsent
    <3> QED BY <2>1, <2>3, <3>1
  <2> QED BY <2>2, <2>3
<1>4. ASSUME NEW x \in S, NEW y \in S, f[x] = f[y] PROVE x = y
  <2>1. /\ x = <<x[1], x[2]>> /\ y = <<y[1], y[2]>>
        /\ x[2] \in Nat /\ y[2] \in Nat
    BY <1>4 DEF Unsent
  <2>2. /\ x[1] = n => f[x] = <<n, x[2] + 1>>
        /\ x[1] # n => f[x] = <<x[1], x[2]>>
        /\ y[1] = n => f[y] = <<n, y[2] + 1>>
        /\ y[1] # n => f[y] = <<y[1], y[2]>>
    BY <2>1
  <2>3. f[x][1] = x[1] /\ f[y][1] = y[1]
    BY <2>2
  <2>4. x[1] = y[1]
    BY <1>4, <2>3
  <2>5. x[2] = y[2]
    BY <1>4, <2>1, <2>2, <2>4
  <2> QED BY <2>1, <2>4, <2>5
<1>5. IsFiniteSet(T)
  BY FS_RemoveElement DEF HInv, HeardOnce
<1>6. f \in Injection(S, T)
  BY <1>3, <1>4 DEF Injection, IsInjective
<1> HIDE DEF f, S, T
<1>7. IsFiniteSet(S) /\ Cardinality(S) <= Cardinality(T)
  BY <1>5, <1>6, FS_Injection
<1> QED BY <1>7 DEF S, T

LEMMA ReturnHeard ==
  ASSUME HInv, IInv', NEW n \in Notifiers, Ack(n) \/ Nak(n)
  PROVE  HInv'
<1>1. /\ work[n].at \in {"ack", "nak"} /\ Return(n)
      /\ UNCHANGED <<expired, heard>>
      /\ work' = [work EXCEPT ![n] = NoWork]
  BY DEF Ack, Nak, Return
<1>2. /\ work \in [Notifiers -> Work] /\ inbox \in [Notifiers -> Seq(Alerts)]
      /\ place \in [Alerts -> {"none", "ready", "out", "acked", "dead"}]
      /\ inbox[n] # <<>>
  BY <1>1 DEF HInv, IInv, TypeInv, TypeOK, Phase
<1>3. /\ Current(n) \in Alerts /\ Current(n) = inbox[n][1] /\ 1 \in DOMAIN inbox[n]
  BY <1>2, HeadTailProperties DEF Current
<1>4. \A v \in Notifiers : NakSentNobody(v)'
  BY <1>1, <1>2 DEF HInv, NakSentNobody, NoWork
<1>5. ASSUME NEW a \in Alerts, NEW c \in Channels PROVE HeardOnce(a, c)'
  <2> DEFINE rest == Unsent(a, c) \ {<<n, 1>>}
  <2>1. /\ IsFiniteSet(Unsent(a, c))
        /\ heard[a][c] + Cardinality(Unsent(a, c)) + Back(a) <= 1 + expired[a]
    BY DEF HInv, HeardOnce
  <2>2. /\ heard[a][c] \in Nat /\ expired[a] \in Nat /\ Back(a) \in 0..1 /\ Back(a)' \in 0..1
        /\ expired'[a] = expired[a] /\ heard'[a][c] = heard[a][c]
    BY <1>1, HeardTypes, HeardTypesNext DEF HInv
  <2>3. /\ IsFiniteSet(rest)
        /\ Cardinality(rest) =
             IF <<n, 1>> \in Unsent(a, c) THEN Cardinality(Unsent(a, c)) - 1
             ELSE Cardinality(Unsent(a, c))
    BY <2>1, FS_RemoveElement
  <2>4. IsFiniteSet(Unsent(a, c)') /\ Cardinality(Unsent(a, c)') <= Cardinality(rest)
    BY <1>1, <1>2, ReturnUnsent
  <2>5. /\ Cardinality(Unsent(a, c)') \in Nat /\ Cardinality(rest) \in Nat
        /\ Cardinality(Unsent(a, c)) \in Nat
    BY <2>1, <2>3, <2>4, FS_CardinalityType
  <2> HIDE DEF rest
  <2>6. CASE Back(a)' <= Back(a)
    <3>1. heard'[a][c] + Cardinality(Unsent(a, c)') + Back(a)' <= 1 + expired'[a]
      BY <2>1, <2>2, <2>3, <2>4, <2>5, <2>6
    <3> QED BY <2>4, <3>1 DEF HeardOnce
  <2>7. CASE ~(Back(a)' <= Back(a))
    <3>1. Nak(n) /\ a = Current(n)
      <4>1. CASE Ack(n)
        BY <1>2, <2>2, <2>7, <4>1 DEF Ack, Back
      <4>2. CASE Nak(n) /\ a # Current(n)
        BY <1>2, <2>2, <2>7, <4>2 DEF Nak, Requeued, Back
      <4> QED BY <4>1, <4>2
    <3>2. work[n].stage[c] # "sent"
      BY <3>1 DEF Nak, HInv, NakSentNobody
    <3>3. <<n, 1>> \in Unsent(a, c)
      BY <1>3, <3>1, <3>2 DEF Unsent
    <3>4. heard'[a][c] + Cardinality(Unsent(a, c)') + Back(a)' <= 1 + expired'[a]
      BY <2>1, <2>2, <2>3, <2>4, <2>5, <2>7, <3>3
    <3> QED BY <2>4, <3>4 DEF HeardOnce
  <2> QED BY <2>6, <2>7
<1> QED BY <1>4, <1>5 DEF HInv

-----------------------------------------------------------------------------
LEMMA HandleHeard ==
  ASSUME HInv, IInv', NEW n \in Notifiers, Handle(n)
  PROVE  HInv'
<1>0. /\ work \in [Notifiers -> Work] /\ NakSentNobody(n)
      /\ \A a \in Alerts : Back(a) \in 0..1 /\ expired[a] \in Nat
      /\ Phase(n) /\ Accounts(n)
  <2>1. MaxDeliver \in Nat
    BY DeliveryAssumption
  <2> QED BY <2>1 DEF HInv, IInv, TypeInv, TypeOK, Back
<1>1. ASSUME UNCHANGED <<place, expired, inbox, heard>>,
             \A v \in Notifiers \ {n} : work'[v] = work[v],
             \A c \in Channels : work[n].stage[c] = "sent" => work'[n].stage[c] = "sent",
             NakSentNobody(n)'
      PROVE  HInv'
  <2>1. \A a \in Alerts : Back(a)' + expired[a] <= Back(a) + expired'[a]
    BY <1>0, <1>1 DEF Back
  <2>2. \A v \in Notifiers : NakSentNobody(v)'
    BY <1>1 DEF HInv, NakSentNobody
  <2>3. \A v \in Notifiers, c \in Channels :
          inbox'[v] # <<>> /\ work[v].stage[c] = "sent" => work'[v].stage[c] = "sent"
    BY <1>1
  <2>4. \A v \in Notifiers : inbox'[v] \in {inbox[v], <<>>}
    BY <1>1
  <2> QED BY <1>1, <2>1, <2>2, <2>3, <2>4, HeardKept
<1>2. CASE ListForMonitor(n) \/ ListByUserID(n) \/ ListFails(n)
  <2>1. /\ work[n].at \in {"idle", "listUser"}
        /\ UNCHANGED <<place, expired, inbox, heard>>
    BY <1>2 DEF ListForMonitor, ListByUserID, ListFails, InHandle, stream
  <2>2. \A c \in Channels : work[n].stage[c] # "sent"
    BY <1>0, <2>1 DEF Phase, Accounts, NoWork
  <2>3. \A v \in Notifiers \ {n} : work'[v] = work[v]
    BY <1>0, <1>2 DEF ListForMonitor, ListByUserID, ListFails, Goto, StartGroup
  <2>4. work'[n].at = "nak" => work'[n].stage = work[n].stage
    BY <1>0, <1>2 DEF ListForMonitor, ListByUserID, ListFails, Goto, StartGroup, Work
  <2>5. NakSentNobody(n)'
    BY <2>2, <2>4 DEF NakSentNobody
  <2> QED BY <1>1, <2>1, <2>2, <2>3, <2>5
<1>3. ASSUME NEW c \in Channels, StartSender(n, c) \/ AttemptFails(n, c) PROVE HInv'
  <2>1. /\ work[n].at = "send" /\ work[n].stage[c] \in {"wait", "send"}
        /\ UNCHANGED <<place, expired, inbox, heard>>
    BY <1>3 DEF StartSender, AttemptFails, InHandle, stream
  <2>2. /\ \A v \in Notifiers \ {n} : work'[v] = work[v]
        /\ work'[n].at = "send"
        /\ \A d \in Channels \ {c} : work'[n].stage[d] = work[n].stage[d]
    <3>1. \/ \E stage \in Stages : Stage(n, c, stage)
          \/ work' = [work EXCEPT ![n].tried[c] = @ + 1]
      BY <1>3 DEF StartSender, AttemptFails, Stages
    <3>2. CASE \E stage \in Stages : Stage(n, c, stage)
      BY <1>0, <2>1, <3>2 DEF Stage, Work
    <3>3. CASE work' = [work EXCEPT ![n].tried[c] = @ + 1]
      BY <1>0, <2>1, <3>3 DEF Work
    <3> QED BY <3>1, <3>2, <3>3
  <2>3. NakSentNobody(n)'
    BY <2>2 DEF NakSentNobody
  <2>4. \A d \in Channels : work[n].stage[d] = "sent" => work'[n].stage[d] = "sent"
    BY <2>1, <2>2
  <2> QED BY <1>1, <2>1, <2>2, <2>3, <2>4
<1>4. CASE Wait(n)
  <2>1. /\ work' = [work EXCEPT ![n].at = Outcome(n)]
        /\ UNCHANGED <<place, expired, inbox, heard>>
    BY <1>4 DEF Wait, Goto, InHandle, stream
  <2>2. /\ \A v \in Notifiers \ {n} : work'[v] = work[v]
        /\ work'[n].at = Outcome(n) /\ work'[n].stage = work[n].stage
    BY <1>0, <2>1 DEF Work
  <2>3. Outcome(n) = "nak" => \A c \in Channels : work[n].stage[c] # "sent"
    BY DEF Outcome, Sent
  <2>4. NakSentNobody(n)'
    BY <2>2, <2>3 DEF NakSentNobody
  <2> QED BY <1>1, <2>1, <2>2, <2>4
<1>5. CASE WriteToDLQ(n) \/ WriteToDLQFails(n)
  <2>1. /\ UNCHANGED <<place, expired, inbox, heard>>
        /\ \A v \in Notifiers \ {n} : work'[v] = work[v]
        /\ work'[n].at \in {"dlq", "ack"} /\ work'[n].stage = work[n].stage
    BY <1>0, <1>5 DEF WriteToDLQ, WriteToDLQFails, Goto, InHandle, stream, Work
  <2>2. NakSentNobody(n)'
    BY <2>1 DEF NakSentNobody
  <2> QED BY <1>1, <2>1, <2>2
<1> QED BY <1>2, <1>3, <1>4, <1>5, SendHeard, ReturnHeard DEF Handle, Send

\* Steps of the queue, of the owner and of processes.
LEMMA OtherHeard ==
  ASSUME HInv, IInv',
         \/ EditChannels
         \/ \E a \in Alerts : PublishAlert(a) \/ AckTimerExpires(a)
         \/ \E n \in Notifiers :
              \/ \E a \in Alerts : RecordAdvisory(n, a)
              \/ \E c \in Channels : BreakerTimeout(n, c) \/ Evict(n, c)
              \/ Crash(n) \/ Restart(n)
         \/ UNCHANGED vars
  PROVE  HInv'
<1>0. /\ work \in [Notifiers -> Work] /\ inbox \in [Notifiers -> Seq(Alerts)]
      /\ place \in [Alerts -> {"none", "ready", "out", "acked", "dead"}]
      /\ expired \in [Alerts -> Nat]
      /\ \A a \in Alerts : Back(a) \in 0..1
  <2>1. MaxDeliver \in Nat
    BY DeliveryAssumption
  <2> QED BY <2>1 DEF HInv, IInv, TypeInv, TypeOK, Back
<1>1. UNCHANGED heard
  BY DEF EditChannels, CreateChannel, UpdateChannel, DeleteChannel, BindChannel, UnbindChannel,
         Edit, PublishAlert, AckTimerExpires, RecordAdvisory, BreakerTimeout, Evict, InHandle,
         Crash, Restart, vars
<1>2. \/ UNCHANGED <<inbox, work>>
      \/ \E n \in Notifiers : /\ inbox' = [inbox EXCEPT ![n] = <<>>]
                              /\ work' = [work EXCEPT ![n] = NoWork]
  BY DEF EditChannels, CreateChannel, UpdateChannel, DeleteChannel, BindChannel, UnbindChannel,
         Edit, PublishAlert, AckTimerExpires, RecordAdvisory, BreakerTimeout, Evict, InHandle,
         Crash, Restart, vars
<1>3. \/ UNCHANGED <<place, expired>>
      \/ \E a \in Alerts : PublishAlert(a) \/ AckTimerExpires(a)
  BY DEF EditChannels, CreateChannel, UpdateChannel, DeleteChannel, BindChannel, UnbindChannel,
         Edit, RecordAdvisory, BreakerTimeout, Evict, InHandle, stream, Crash, Restart, vars
<1>4. ASSUME NEW b \in Alerts PROVE Back(b)' + expired[b] <= Back(b) + expired'[b]
  <2>1. CASE UNCHANGED <<place, expired>>
    BY <1>0, <2>1 DEF Back
  <2>2. ASSUME NEW a \in Alerts, PublishAlert(a)
        PROVE  Back(b)' + expired[b] <= Back(b) + expired'[b]
    <3>1. /\ place[a] = "none" /\ place' = [place EXCEPT ![a] = "ready"] /\ expired' = expired
      BY <2>2 DEF PublishAlert
    <3>2. Back(b)' = Back(b) /\ expired'[b] = expired[b]
      BY <1>0, <3>1 DEF Back
    <3> QED BY <1>0, <3>2
  <2>3. ASSUME NEW a \in Alerts, AckTimerExpires(a)
        PROVE  Back(b)' + expired[b] <= Back(b) + expired'[b]
    <3>1. /\ place[a] = "out" /\ expired' = [expired EXCEPT ![a] = expired[a] + 1]
          /\ \E spot \in {"ready", "dead"} : place' = [place EXCEPT ![a] = spot]
      BY <2>3 DEF AckTimerExpires, Requeued
    <3>2. CASE b = a
      <4>1. Back(b) = 0 /\ Back(b)' = 1 /\ expired'[b] = expired[b] + 1
        BY <1>0, <3>1, <3>2 DEF Back
      <4> QED BY <1>0, <4>1
    <3>3. CASE b # a
      <4>1. Back(b)' = Back(b) /\ expired'[b] = expired[b]
        BY <1>0, <3>1, <3>3 DEF Back
      <4> QED BY <1>0, <4>1
    <3> QED BY <3>2, <3>3
  <2> QED BY <1>3, <2>1, <2>2, <2>3
<1>5. \A n \in Notifiers : inbox'[n] \in {inbox[n], <<>>}
  BY <1>0, <1>2
<1>6. \A n \in Notifiers, c \in Channels :
        inbox'[n] # <<>> /\ work[n].stage[c] = "sent" => work'[n].stage[c] = "sent"
  BY <1>0, <1>2
<1>7. ASSUME NEW n \in Notifiers PROVE NakSentNobody(n)'
  <2>1. work'[n] \in {work[n], NoWork} /\ NakSentNobody(n)
    BY <1>0, <1>2 DEF HInv
  <2> QED BY <2>1 DEF NakSentNobody, NoWork
<1> QED BY <1>1, <1>4, <1>5, <1>6, <1>7, HeardKept

LEMMA HeardInit == Init => HInv
<1> SUFFICES ASSUME Init PROVE HInv
  OBVIOUS
<1>1. ASSUME NEW a \in Alerts, NEW c \in Channels PROVE HeardOnce(a, c)
  <2>1. Unsent(a, c) = {}
    BY DEF Init, Unsent
  <2>2. heard[a][c] = 0 /\ expired[a] = 0 /\ Back(a) = 1
    BY DEF Init, Back
  <2> QED BY <2>1, <2>2, FS_EmptySet DEF HeardOnce
<1>2. \A n \in Notifiers : NakSentNobody(n)
  BY DEF Init, NoWork, NakSentNobody
<1> QED BY <1>1, <1>2, InvInit DEF HInv

LEMMA HeardStep == HInv /\ [Next]_vars => HInv'
<1> SUFFICES ASSUME HInv, [Next]_vars PROVE HInv'
  OBVIOUS
<1>1. IInv'
  BY InvStep DEF HInv
<1> QED BY <1>1, HandleHeard, DeliverHeard, OtherHeard DEF Next

LEMMA HeardInvariant == Spec => []HInv
BY HeardInit, HeardStep, PTL DEF Spec

\* A channel hears an alert once, and once more at most for each time the alert's
\* acknowledgement timer ran out: naks of Handle, crashes and other notifiers
\* that still hold a delivery of the alert never add to that, for any number of
\* notifiers and any MaxDeliver.
THEOREM ResendOnlyAfterTimeoutAlways == Spec => []ResendOnlyAfterTimeout
<1>1. HInv => ResendOnlyAfterTimeout
  <2> SUFFICES ASSUME HInv, NEW a \in Alerts, NEW c \in Channels
               PROVE  heard[a][c] <= 1 + expired[a]
    BY DEF ResendOnlyAfterTimeout
  <2>1. /\ heard[a][c] + Cardinality(Unsent(a, c)) + Back(a) <= 1 + expired[a]
        /\ Cardinality(Unsent(a, c)) \in Nat
    BY FS_CardinalityType DEF HInv, HeardOnce
  <2>2. heard[a][c] \in Nat /\ expired[a] \in Nat /\ Back(a) \in 0..1
    BY HeardTypes DEF HInv
  <2> QED BY <2>1, <2>2
<1> QED BY <1>1, HeardInvariant, PTL

\* An alert that used up its deliveries without a timeout reached no channel: its
\* row in failed_alerts, which names none, tells the truth.
THEOREM GivenUpReachedNobodyAlways == Spec => []GivenUpReachedNobody
<1>1. HInv => GivenUpReachedNobody
  <2> SUFFICES ASSUME HInv, NEW a \in Alerts, place[a] = "dead", expired[a] = 0,
                      NEW c \in Channels
               PROVE  heard[a][c] = 0
    BY DEF GivenUpReachedNobody
  <2>1. /\ heard[a][c] + Cardinality(Unsent(a, c)) + Back(a) <= 1 + expired[a]
        /\ Cardinality(Unsent(a, c)) \in Nat
    BY FS_CardinalityType DEF HInv, HeardOnce
  <2>2. heard[a][c] \in Nat /\ Back(a) = 1
    BY HeardTypes DEF HInv, Back
  <2> QED BY <2>1, <2>2
<1> QED BY <1>1, HeardInvariant, PTL

=============================================================================
