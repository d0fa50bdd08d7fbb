--------------------------- MODULE AlertDelivery ---------------------------
(***************************************************************************)
(* The notifier.  Alerts wait in the ALERTS work queue; the notifiers share *)
(* one durable consumer.  A notifier handles its deliveries one at a time:  *)
(* it lists the channels, sends to each of them through that channel's      *)
(* retries and circuit breaker, and acknowledges, naks or first records the *)
(* channels that failed.  One monitor and its owner are modelled, and the   *)
(* owner's channels.                                                        *)
(***************************************************************************)
EXTENDS Naturals, Sequences, FiniteSets

CONSTANTS
  Notifiers,     \* notifier processes
  Alerts,        \* alerts the workers may publish
  Channels,      \* notification channels of the owner
  Unregistered,  \* those whose type has no factory in the notifier
  MaxDeliver,    \* of the consumer notifier-alerts
  Limit,         \* g.SetLimit
  MaxTries,      \* backoff.WithMaxTries
  MaxFailures,   \* consecutive failures that open a breaker
  MaxWrites,     \* attempts of writeToDLQ
  MaxEdits,      \* bound: number of changes of the channels
  MaxCrashes,    \* bound: number of crashes
  Faults         \* "list", "dlq": statements that may fail; "slow": a handler
                 \* may outlast the acknowledgement timer

ASSUME DeliveryAssumption ==
  /\ Unregistered \subseteq Channels
  /\ {MaxDeliver, Limit, MaxTries, MaxFailures, MaxWrites} \subseteq Nat \ {0}
  /\ {MaxEdits, MaxCrashes} \subseteq Nat
  /\ Faults \subseteq {"list", "dlq", "slow"}

VARIABLES
  chan,      \* tables notification_channels and monitor_channels
  edits,     \* number of changes of them so far
  place,     \* per alert: where it is in the work queue
  tries,     \* per alert: its deliveries so far
  expired,   \* per alert: how often its acknowledgement timer ran out
  inbox,     \* per notifier: deliveries received, the head being handled
  advisory,  \* per notifier: max-delivery advisories received
  work,      \* per notifier: what Handle is doing
  breaker,   \* per notifier and channel: the registry's circuit breaker
  up,        \* notifiers that run
  crashes,   \* number of crashes so far
  failed,    \* table failed_alerts
  heard      \* per alert and channel: number of Sends that returned nil

table  == <<chan, edits>>
stream == <<place, tries, expired>>
vars   == <<table, stream, inbox, advisory, work, breaker, up, crashes, failed, heard>>

Channel == [state : {"absent", "live", "deleted"}, enabled : BOOLEAN, bound : BOOLEAN]
Breaker == [state : {"closed", "open", "half"}, fails : 0..MaxFailures]
Row     == [alert : Alerts, channels : SUBSET Channels]

\* A channel's goroutine: not started for disabled channels, waiting for the
\* group's limit, sending, or done.
Stages == {"off", "wait", "send", "sent", "failed"}
Steps  == {"idle", "listUser", "send", "dlq", "ack", "nak"}
Work   == [at : Steps, stage : [Channels -> Stages], tried : [Channels -> 0..MaxTries],
           writes : 0..MaxWrites]

NoWork == [at |-> "idle", stage |-> [c \in Channels |-> "off"],
           tried |-> [c \in Channels |-> 0], writes |-> 0]
Absent == [state |-> "absent", enabled |-> FALSE, bound |-> FALSE]
Fresh  == [state |-> "closed", fails |-> 0]

TypeOK ==
  /\ chan \in [Channels -> Channel]
  /\ edits \in 0..MaxEdits
  /\ place \in [Alerts -> {"none", "ready", "out", "acked", "dead"}]
  /\ tries \in [Alerts -> 0..MaxDeliver]
  /\ expired \in [Alerts -> 0..MaxDeliver]
  /\ inbox \in [Notifiers -> Seq(Alerts)]
  /\ advisory \in [Notifiers -> SUBSET Alerts]
  /\ work \in [Notifiers -> Work]
  /\ breaker \in [Notifiers -> [Channels -> Breaker]]
  /\ up \subseteq Notifiers
  /\ crashes \in 0..MaxCrashes
  /\ failed \subseteq Row
  /\ heard \in [Alerts -> [Channels -> Nat]]

-----------------------------------------------------------------------------
(* Channels of the owner.  Every statement is guarded by deleted_at IS NULL *)
(* and writes what the request says, so that one step per request is        *)
(* enough; a binding of a deleted channel is never seen.                    *)

Edit(c, row) ==
  /\ edits < MaxEdits
  /\ edits' = edits + 1
  /\ chan' = [chan EXCEPT ![c] = row]
  /\ UNCHANGED <<stream, inbox, advisory, work, breaker, up, crashes, failed, heard>>

CreateChannel(c) ==
  /\ chan[c].state = "absent"
  /\ Edit(c, [state |-> "live", enabled |-> TRUE, bound |-> FALSE])

UpdateChannel(c) ==
  /\ chan[c].state = "live"
  /\ \E enabled \in BOOLEAN : Edit(c, [chan[c] EXCEPT !.enabled = enabled])

DeleteChannel(c) ==
  /\ chan[c].state = "live"
  /\ Edit(c, [chan[c] EXCEPT !.state = "deleted"])

BindChannel(c) ==
  /\ chan[c].state = "live"
  /\ Edit(c, [chan[c] EXCEPT !.bound = TRUE])

\* UnbindChannel checks only that the monitor is the caller's.
UnbindChannel(c) ==
  /\ chan[c].bound
  /\ Edit(c, [chan[c] EXCEPT !.bound = FALSE])

EditChannels ==
  \E c \in Channels : \/ CreateChannel(c) \/ UpdateChannel(c) \/ DeleteChannel(c)
                      \/ BindChannel(c) \/ UnbindChannel(c)

-----------------------------------------------------------------------------
(* The work queue.  BackOff of the consumer replaces AckWait, so the timer  *)
(* of the first delivery is two seconds and a handler may take thirty.      *)

PublishAlert(a) ==
  /\ place[a] = "none"
  /\ place' = [place EXCEPT ![a] = "ready"]
  /\ UNCHANGED <<table, tries, expired, inbox, advisory, work, breaker, up, crashes, failed, heard>>

\* DeliverNew is a mutant: alerts that came back are not taken up again.
DeliverNew(n, a) ==
  /\ n \in up /\ place[a] = "ready" /\ tries[a] = 0
  /\ place' = [place EXCEPT ![a] = "out"]
  /\ tries' = [tries EXCEPT ![a] = @ + 1]
  /\ inbox' = [inbox EXCEPT ![n] = Append(@, a)]
  /\ UNCHANGED <<table, expired, advisory, work, breaker, up, crashes, failed, heard>>
Deliver(n, a) ==
  /\ n \in up /\ place[a] = "ready"
  /\ place' = [place EXCEPT ![a] = "out"]
  /\ tries' = [tries EXCEPT ![a] = @ + 1]
  /\ inbox' = [inbox EXCEPT ![n] = Append(@, a)]
  /\ UNCHANGED <<table, expired, advisory, work, breaker, up, crashes, failed, heard>>

\* An unacknowledged alert is delivered again, or given up and advised of.
RequeuedAlways(a) == /\ place' = [place EXCEPT ![a] = "ready"] /\ UNCHANGED advisory
Requeued(a) ==
  IF tries[a] < MaxDeliver
  THEN /\ place' = [place EXCEPT ![a] = "ready"]
       /\ UNCHANGED advisory
  ELSE /\ place' = [place EXCEPT ![a] = "dead"]
       /\ advisory' = [n \in Notifiers |-> IF n \in up THEN advisory[n] \cup {a} ELSE advisory[n]]

Holds(n, a) == \E k \in DOMAIN inbox[n] : inbox[n][k] = a

AckTimerExpires(a) ==
  /\ place[a] = "out"
  /\ "slow" \in Faults \/ \A n \in Notifiers : ~Holds(n, a)
  /\ expired' = [expired EXCEPT ![a] = @ + 1]
  /\ Requeued(a)
  /\ UNCHANGED <<table, tries, inbox, work, breaker, up, crashes, failed, heard>>

-----------------------------------------------------------------------------
(* Handle: the channels to notify.                                          *)

Current(n) == Head(inbox[n])
Goto(n, step) == work' = [work EXCEPT ![n].at = step]
InHandle == <<table, stream, inbox, advisory, up, crashes>>

StartGroup(n, channels) ==
  work' = [work EXCEPT ![n].at = "send",
             ![n].stage = [c \in Channels |->
                IF c \in channels /\ chan[c].enabled THEN "wait" ELSE "off"]]

ListForMonitor(n) ==
  LET channels == {c \in Channels : chan[c].state = "live" /\ chan[c].bound}
  IN  /\ work[n].at = "idle" /\ inbox[n] # <<>>
      /\ IF channels = {} THEN Goto(n, "listUser") ELSE StartGroup(n, channels)
      /\ UNCHANGED <<InHandle, breaker, failed, heard>>

ListByUserID(n) ==
  LET channels == {c \in Channels : chan[c].state = "live"}
  IN  /\ work[n].at = "listUser"
      /\ IF channels = {} THEN Goto(n, "ack") ELSE StartGroup(n, channels)
      /\ UNCHANGED <<InHandle, breaker, failed, heard>>

ListFails(n) ==
  /\ "list" \in Faults
  /\ work[n].at \in {"idle", "listUser"} /\ inbox[n] # <<>>
  /\ Goto(n, "nak")
  /\ UNCHANGED <<InHandle, breaker, failed, heard>>

-----------------------------------------------------------------------------
(* Handle: one goroutine per enabled channel.                               *)

Stage(n, c, stage) == work' = [work EXCEPT ![n] = [@ EXCEPT !.stage[c] = stage, !.tried[c] = 0]]

\* gobreaker: what the outcome of an executed request makes of the breaker.
OnSuccess(b) == Fresh
OnFailure(b) ==
  IF b.state = "half" \/ b.fails + 1 >= MaxFailures
  THEN [state |-> "open", fails |-> 0]
  ELSE [b EXCEPT !.fails = @ + 1]

\* CreateSender and the breaker's admission: no factory, or an open breaker,
\* fails the channel without a request.
StartSender(n, c) ==
  /\ work[n].at = "send" /\ work[n].stage[c] = "wait"
  /\ Cardinality({d \in Channels : work[n].stage[d] = "send"}) < Limit
  /\ IF c \in Unregistered \/ breaker[n][c].state = "open"
     THEN Stage(n, c, "failed")
     ELSE Stage(n, c, "send")
  /\ UNCHANGED <<InHandle, breaker, failed, heard>>

SendSucceeds(n, c) ==
  /\ work[n].at = "send" /\ work[n].stage[c] = "send"
  /\ Stage(n, c, "sent")
  /\ breaker' = [breaker EXCEPT ![n][c] = OnSuccess(@)]
  /\ heard' = [heard EXCEPT ![Current(n)][c] = @ + 1]
  /\ UNCHANGED <<InHandle, failed>>

\* A failed attempt is repeated unless it was the last or the context is done.
AttemptFails(n, c) ==
  /\ work[n].at = "send" /\ work[n].stage[c] = "send"
  /\ \/ /\ work[n].tried[c] + 1 < MaxTries
        /\ work' = [work EXCEPT ![n].tried[c] = @ + 1]
        /\ UNCHANGED breaker
     \/ /\ Stage(n, c, "failed")
        /\ breaker' = [breaker EXCEPT ![n][c] = OnFailure(@)]
  /\ UNCHANGED <<InHandle, failed, heard>>

Sent(n)    == {c \in Channels : work[n].stage[c] = "sent"}
Failing(n) == {c \in Channels : work[n].stage[c] = "failed"}

\* After g.Wait.
OutcomeAcksPartial(n) == IF Sent(n) = {} /\ Failing(n) # {} THEN "nak" ELSE "ack"
OutcomeNaksPartial(n) == IF Failing(n) # {} THEN "nak" ELSE "ack"
Outcome(n) ==
  IF Sent(n) = {} /\ Failing(n) # {} THEN "nak"
  ELSE IF Failing(n) # {} THEN "dlq" ELSE "ack"

Wait(n) ==
  /\ work[n].at = "send"
  /\ \A c \in Channels : work[n].stage[c] \in {"off", "sent", "failed"}
  /\ Goto(n, Outcome(n))
  /\ UNCHANGED <<InHandle, breaker, failed, heard>>

WriteToDLQ(n) ==
  /\ work[n].at = "dlq"
  /\ failed' = failed \cup {[alert |-> Current(n), channels |-> Failing(n)]}
  /\ Goto(n, "ack")
  /\ UNCHANGED <<InHandle, breaker, heard>>

WriteToDLQFails(n) ==
  /\ "dlq" \in Faults
  /\ work[n].at = "dlq"
  /\ work' = [work EXCEPT ![n].writes = @ + 1,
                          ![n].at = IF work[n].writes + 1 < MaxWrites THEN "dlq" ELSE "ack"]
  /\ UNCHANGED <<InHandle, breaker, failed, heard>>

-----------------------------------------------------------------------------
(* The end of a delivery.                                                   *)

Return(n) ==
  /\ work' = [work EXCEPT ![n] = NoWork]
  /\ inbox' = [inbox EXCEPT ![n] = Tail(@)]

\* The acknowledgement of any delivery of an alert removes it.
Ack(n) ==
  /\ work[n].at = "ack"
  /\ place' = [place EXCEPT ![Current(n)] = "acked"]
  /\ Return(n)
  /\ UNCHANGED <<table, tries, expired, advisory, breaker, up, crashes, failed, heard>>

\* A nak makes the server deliver the alert again at once, whatever BackOff says.
Nak(n) ==
  /\ work[n].at = "nak"
  /\ IF place[Current(n)] = "out" THEN Requeued(Current(n)) ELSE UNCHANGED <<place, advisory>>
  /\ Return(n)
  /\ UNCHANGED <<table, tries, expired, breaker, up, crashes, failed, heard>>

\* DLQConsumer: the row holds the advisory and no channel.
RecordAdvisory(n, a) ==
  /\ a \in advisory[n]
  /\ advisory' = [advisory EXCEPT ![n] = @ \ {a}]
  /\ \/ failed' = failed \cup {[alert |-> a, channels |-> {}]}
     \/ "dlq" \in Faults /\ UNCHANGED failed
  /\ UNCHANGED <<table, stream, inbox, work, breaker, up, crashes, heard>>

-----------------------------------------------------------------------------
(* Breakers and processes.                                                  *)

\* The sixty seconds of an open breaker are over.
BreakerTimeout(n, c) ==
  /\ breaker[n][c].state = "open"
  /\ breaker' = [breaker EXCEPT ![n][c].state = "half"]
  /\ UNCHANGED <<InHandle, work, failed, heard>>

\* evictLoop drops a breaker nobody used for an hour.
Evict(n, c) ==
  /\ breaker[n][c].state # "open" /\ breaker[n][c] # Fresh
  /\ work[n].stage[c] # "send"
  /\ breaker' = [breaker EXCEPT ![n][c] = Fresh]
  /\ UNCHANGED <<InHandle, work, failed, heard>>

\* Stop ends a notifier in the same way: nothing is acknowledged or recorded.
Crash(n) ==
  /\ n \in up /\ crashes < MaxCrashes
  /\ crashes' = crashes + 1
  /\ up' = up \ {n}
  /\ work' = [work EXCEPT ![n] = NoWork]
  /\ inbox' = [inbox EXCEPT ![n] = <<>>]
  /\ advisory' = [advisory EXCEPT ![n] = {}]
  /\ breaker' = [breaker EXCEPT ![n] = [c \in Channels |-> Fresh]]
  /\ UNCHANGED <<table, stream, failed, heard>>

Restart(n) ==
  /\ n \notin up
  /\ up' = up \cup {n}
  /\ UNCHANGED <<table, stream, inbox, advisory, work, breaker, crashes, failed, heard>>

-----------------------------------------------------------------------------
Init ==
  /\ chan \in [Channels -> {Absent} \cup [state : {"live"}, enabled : {TRUE}, bound : BOOLEAN]]
  /\ edits = 0
  /\ place = [a \in Alerts |-> "none"]
  /\ tries = [a \in Alerts |-> 0]
  /\ expired = [a \in Alerts |-> 0]
  /\ inbox = [n \in Notifiers |-> <<>>]
  /\ advisory = [n \in Notifiers |-> {}]
  /\ work = [n \in Notifiers |-> NoWork]
  /\ breaker = [n \in Notifiers |-> [c \in Channels |-> Fresh]]
  /\ up = Notifiers
  /\ crashes = 0
  /\ failed = {}
  /\ heard = [a \in Alerts |-> [c \in Channels |-> 0]]

Send(n, c) == StartSender(n, c) \/ SendSucceeds(n, c) \/ AttemptFails(n, c)

Handle(n) ==
  \/ ListForMonitor(n) \/ ListByUserID(n) \/ ListFails(n)
  \/ \E c \in Channels : Send(n, c)
  \/ Wait(n) \/ WriteToDLQ(n) \/ WriteToDLQFails(n) \/ Ack(n) \/ Nak(n)

Next ==
  \/ EditChannels
  \/ \E a \in Alerts : PublishAlert(a) \/ AckTimerExpires(a)
  \/ \E n \in Notifiers :
       \/ Handle(n)
       \/ \E a \in Alerts : Deliver(n, a) \/ RecordAdvisory(n, a)
       \/ \E c \in Channels : BreakerTimeout(n, c) \/ Evict(n, c)
       \/ Crash(n) \/ Restart(n)

Spec == Init /\ [][Next]_vars

\* The notifiers run, the server delivers and its timers expire, and a crashed
\* notifier is restarted.  No attempt has to succeed and no alert has to come.
FairSpec ==
  /\ Spec
  /\ \A n \in Notifiers : /\ WF_vars(Handle(n))
                          /\ WF_vars(\E a \in Alerts : Deliver(n, a))
                          /\ WF_vars(\E a \in Alerts : RecordAdvisory(n, a))
                          /\ WF_vars(Restart(n))
  /\ \A a \in Alerts : WF_vars(AckTimerExpires(a))

-----------------------------------------------------------------------------
\* When Handle acknowledges an alert, every channel it set out to notify has
\* heard the alert or is named in a row of failed_alerts, unless all attempts of
\* writeToDLQ failed: the acknowledgement is the end of that alert.
AckAccountsForAll ==
  \A n \in Notifiers :
    work[n].at = "ack" /\ work[n].writes < MaxWrites =>
      \A c \in Channels :
        \/ work[n].stage[c] = "off"
        \/ heard[Current(n)][c] > 0
        \/ \E row \in failed : row.alert = Current(n) /\ c \in row.channels

\* A channel hears an alert once, and once more at most for each time that the
\* alert's acknowledgement timer ran out: the retries Handle asks for with a nak
\* repeat nothing that succeeded.
ResendOnlyAfterTimeout ==
  \A a \in Alerts, c \in Channels : heard[a][c] <= 1 + expired[a]

\* An alert that used up its deliveries without a timeout reached no channel, as
\* its row in failed_alerts without channels says.
GivenUpReachedNobody ==
  \A a \in Alerts : place[a] = "dead" /\ expired[a] = 0 =>
    \A c \in Channels : heard[a][c] = 0

\* Every published alert is acknowledged or given up.
EveryAlertSettles ==
  \A a \in Alerts : place[a] # "none" ~> place[a] \in {"acked", "dead"}

=============================================================================
