-------------------------- MODULE LeaderScheduler --------------------------
(***************************************************************************)
(* The scheduler instances, the Redis lease that elects their leader, and  *)
(* the rounds in which the leader publishes the checks that are due.       *)
(*                                                                         *)
(* Time is counted in ticks of one second.  The lease, the age of a round  *)
(* and the wait until a monitor is due are counted from the present, so    *)
(* that time itself needs no bound.  An instance may be arbitrarily slow:  *)
(* every publish of a round waits for its acknowledgement, and nothing     *)
(* bounds a round against the lease.                                       *)
(***************************************************************************)
EXTENDS Integers, FiniteSets

CONSTANTS
  Instances,  \* scheduler processes
  Monitors,
  Lease,      \* expiry of the leader lock
  Interval,   \* interval_seconds of every monitor
  MaxAge,     \* bound: the age of a round is counted up to here
  Faults      \* "publish", "crash", "stop", "redis": what may happen

ASSUME SchedulerAssumption ==
  /\ Lease \in Nat \ {0} /\ Interval \in Nat \ {0}
  /\ MaxAge \in Nat /\ MaxAge >= Lease /\ MaxAge >= Interval
  /\ Faults \subseteq {"publish", "crash", "stop", "redis"}
  /\ "none" \notin Instances /\ "dead" \notin Instances

VARIABLES
  holder,   \* whose value the lock key has; "dead": of a process that is gone
  ttl,      \* ticks until the key expires
  leaders,  \* instances with isLeader set
  stopped,  \* instances whose Stop was called
  loop,     \* where Run is
  todo,     \* due monitors not yet published in the current round
  age,      \* ticks since the current round's Extend
  entry,    \* per instance: its map of monitors
  wait      \* ... and the ticks until each of them is due

vars == <<holder, ttl, leaders, stopped, loop, todo, age, entry, wait>>
lock == <<holder, ttl>>

TypeOK ==
  /\ holder \in Instances \cup {"none", "dead"}
  /\ ttl \in 0..Lease
  /\ leaders \subseteq Instances
  /\ stopped \subseteq Instances
  /\ loop \in [Instances -> {"tick", "locked", "round", "exit"}]
  /\ todo \in [Instances -> SUBSET Monitors]
  /\ age \in [Instances -> 0..MaxAge]
  /\ entry \in [Instances -> [Monitors -> {"absent", "paused", "active"}]]
  /\ wait \in [Instances -> [Monitors -> 0..Interval]]

-----------------------------------------------------------------------------
(* The lock: SET NX, a compare-and-expire and a compare-and-delete.        *)

Minus1(n) == IF n = 0 THEN 0 ELSE n - 1

\* A second passes: the key loses one, and is gone at zero.
ExpireBelowZero ==
  /\ ttl' = ttl - 1
  /\ holder' = IF ttl <= 1 THEN "none" ELSE holder
Expire ==
  /\ ttl' = Minus1(ttl)
  /\ holder' = IF ttl <= 1 THEN "none" ELSE holder

Lock(i) == holder = "none" /\ holder' = i /\ ttl' = Lease

Extend(i) == holder = i /\ ttl' = Lease /\ UNCHANGED holder

\* The lock value of a process that is gone is nobody's.
Abandoned(i) == IF holder = i THEN "dead" ELSE holder

Unlock(i) == IF holder = i THEN holder' = "none" /\ ttl' = 0 ELSE UNCHANGED lock

-----------------------------------------------------------------------------
(* Run: one iteration per tick of the instance's ticker.                   *)

Running(i) == loop[i] # "exit"

TryAcquireLeadership(i) ==
  /\ loop[i] = "tick" /\ i \notin leaders
  /\ Lock(i)
  /\ loop' = [loop EXCEPT ![i] = "locked"]
  /\ UNCHANGED <<leaders, stopped, todo, age, entry, wait>>

BecomeLeader(i) ==
  /\ loop[i] = "locked"
  /\ leaders' = leaders \cup {i}
  /\ loop' = [loop EXCEPT ![i] = "tick"]
  /\ UNCHANGED <<lock, stopped, todo, age, entry, wait>>

\* now.Sub(lastTick) >= interval, with the clock read once for the round.
Due(i) == {m \in Monitors : entry[i][m] = "active" /\ wait[i][m] = 0}

BeginRoundUnfenced(i) ==
  /\ loop[i] = "tick" /\ i \in leaders
  /\ loop' = [loop EXCEPT ![i] = "round"]
  /\ todo' = [todo EXCEPT ![i] = Due(i)]
  /\ age' = [age EXCEPT ![i] = 0]
  /\ UNCHANGED <<lock, leaders, stopped, entry, wait>>
BeginRound(i) ==
  /\ loop[i] = "tick" /\ i \in leaders
  /\ Extend(i)
  /\ loop' = [loop EXCEPT ![i] = "round"]
  /\ todo' = [todo EXCEPT ![i] = Due(i)]
  /\ age' = [age EXCEPT ![i] = 0]
  /\ UNCHANGED <<leaders, stopped, entry, wait>>

StepDownNever(i) ==
  /\ loop[i] = "tick" /\ i \in leaders
  /\ holder # i
  /\ UNCHANGED vars
StepDown(i) ==
  /\ loop[i] = "tick" /\ i \in leaders
  /\ holder # i \/ "redis" \in Faults
  /\ leaders' = leaders \ {i}
  /\ UNCHANGED <<lock, stopped, loop, todo, age, entry, wait>>

\* lastTick becomes the time the round began.
Remaining(i) == IF age[i] < Interval THEN Interval - age[i] ELSE 0

Publish(i, m) ==
  /\ loop[i] = "round" /\ m \in todo[i]
  /\ todo' = [todo EXCEPT ![i] = @ \ {m}]
  /\ wait' = [wait EXCEPT ![i][m] = Remaining(i)]
  /\ UNCHANGED <<lock, leaders, stopped, loop, age, entry>>

\* The error is logged and the monitor stays due.
PublishFails(i, m) ==
  /\ "publish" \in Faults
  /\ loop[i] = "round" /\ m \in todo[i]
  /\ todo' = [todo EXCEPT ![i] = @ \ {m}]
  /\ UNCHANGED <<lock, leaders, stopped, loop, age, entry, wait>>

EndRound(i) ==
  /\ loop[i] = "round" /\ todo[i] = {}
  /\ loop' = [loop EXCEPT ![i] = "tick"]
  /\ age' = [age EXCEPT ![i] = 0]
  /\ UNCHANGED <<lock, leaders, stopped, todo, entry, wait>>

\* Run returns once it notices the cancelled context; a select with both
\* channels ready may still take the tick, so the other steps stay enabled.
Return(i) ==
  /\ i \in stopped /\ loop[i] = "tick"
  /\ loop' = [loop EXCEPT ![i] = "exit"]
  /\ holder' = Abandoned(i)
  /\ leaders' = leaders \ {i}
  /\ UNCHANGED <<ttl, stopped, todo, age, entry, wait>>

\* Stop runs in another goroutine: it does not wait for a round to end, and
\* the round's publishes do not use the cancelled context.
Stop(i) ==
  /\ "stop" \in Faults
  /\ Running(i) /\ i \notin stopped
  /\ stopped' = stopped \cup {i}
  /\ IF i \in leaders THEN Unlock(i) /\ leaders' = leaders \ {i}
                      ELSE UNCHANGED <<lock, leaders>>
  /\ UNCHANGED <<loop, todo, age, entry, wait>>

-----------------------------------------------------------------------------
(* The map: Add and Remove wait for the mutex a round holds.               *)

Add(i, m, paused) ==
  /\ Running(i) /\ loop[i] # "round"
  /\ entry' = [entry EXCEPT ![i][m] = IF paused THEN "paused" ELSE "active"]
  /\ wait' = [wait EXCEPT ![i][m] = 0]
  /\ UNCHANGED <<lock, leaders, stopped, loop, todo, age>>

Remove(i, m) ==
  /\ Running(i) /\ loop[i] # "round"
  /\ entry' = [entry EXCEPT ![i][m] = "absent"]
  /\ wait' = [wait EXCEPT ![i][m] = 0]
  /\ UNCHANGED <<lock, leaders, stopped, loop, todo, age>>

-----------------------------------------------------------------------------
(* Processes die without unlocking; a new one has a new lock value and     *)
(* loads the active monitors, all of them due.                             *)

Crash(i) ==
  /\ "crash" \in Faults
  /\ Running(i)
  /\ loop' = [loop EXCEPT ![i] = "exit"]
  /\ holder' = Abandoned(i)
  /\ leaders' = leaders \ {i}
  /\ todo' = [todo EXCEPT ![i] = {}]
  /\ age' = [age EXCEPT ![i] = 0]
  /\ entry' = [entry EXCEPT ![i] = [m \in Monitors |-> "absent"]]
  /\ wait' = [wait EXCEPT ![i] = [m \in Monitors |-> 0]]
  /\ UNCHANGED <<ttl, stopped>>

Start(i) ==
  /\ loop[i] = "exit"
  /\ loop' = [loop EXCEPT ![i] = "tick"]
  /\ stopped' = stopped \ {i}
  /\ \E active \in SUBSET Monitors :
       entry' = [entry EXCEPT ![i] = [m \in Monitors |-> IF m \in active THEN "active" ELSE "absent"]]
  /\ wait' = [wait EXCEPT ![i] = [m \in Monitors |-> 0]]
  /\ UNCHANGED <<lock, leaders, todo, age>>

Older(i) == IF age[i] < MaxAge THEN age[i] + 1 ELSE MaxAge

Tick ==
  /\ Expire
  /\ age' = [i \in Instances |-> IF loop[i] = "round" THEN Older(i) ELSE 0]
  /\ wait' = [i \in Instances |-> [m \in Monitors |-> Minus1(wait[i][m])]]
  /\ UNCHANGED <<leaders, stopped, loop, todo, entry>>

-----------------------------------------------------------------------------
Init ==
  /\ holder = "none" /\ ttl = 0
  /\ leaders = {} /\ stopped = {}
  /\ loop = [i \in Instances |-> "tick"]
  /\ todo = [i \in Instances |-> {}]
  /\ age = [i \in Instances |-> 0]
  /\ entry \in [Instances -> [Monitors -> {"absent", "active"}]]
  /\ wait = [i \in Instances |-> [m \in Monitors |-> 0]]

Step(i) ==
  \/ TryAcquireLeadership(i) \/ BecomeLeader(i) \/ BeginRound(i) \/ StepDown(i)
  \/ EndRound(i)

Next ==
  \/ \E i \in Instances :
       \/ Step(i) \/ Return(i) \/ Stop(i) \/ Crash(i) \/ Start(i)
       \/ \E m \in Monitors : \/ Publish(i, m) \/ PublishFails(i, m) \/ Remove(i, m)
                              \/ \E paused \in BOOLEAN : Add(i, m, paused)
  \/ Tick

Spec == Init /\ [][Next]_vars

\* Time passes and no goroutine is starved; an instance is not always too slow
\* for its lease (the ticker fires ten times in it), nor does every publish of a
\* monitor fail.
Fairness ==
  /\ WF_vars(Tick)
  /\ \A i \in Instances :
       /\ WF_vars(Step(i))
       /\ SF_vars(TryAcquireLeadership(i))
       /\ SF_vars(holder = i /\ BecomeLeader(i))
       /\ SF_vars(BeginRound(i))
       /\ \A m \in Monitors : SF_vars(Publish(i, m))

FairSpec == Spec /\ Fairness

-----------------------------------------------------------------------------
(* Properties *)

Dispatching(i) == loop[i] = "round"

\* Two running instances dispatch at once only if a round of one of them has
\* outlived the lease it began with: extending the lease before every round
\* fences off everybody else for that long.  An instance being shut down is not
\* counted: Stop releases the lock under a round in progress.
OneDispatcher ==
  \A i, j \in Instances \ stopped :
    Dispatching(i) /\ Dispatching(j) /\ i # j => age[i] >= Lease \/ age[j] >= Lease

\* When from some time on every instance runs with monitor m in its map, m is
\* checked again and again: a lease left behind by a crash expires, a leader
\* that lost its lease steps down and competes again, a failed publish is
\* repeated in a later round.
KeepsDispatching ==
  \A m \in Monitors :
    <>[](\A i \in Instances : Running(i) /\ i \notin stopped /\ entry[i][m] = "active")
      => []<><<\E i \in Instances : Publish(i, m)>>_vars
=============================================================================
