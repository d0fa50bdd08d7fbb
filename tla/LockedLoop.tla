----------------------------- MODULE LockedLoop -----------------------------
(* The shape behind the periodic jobs of a scheduler process                *)
(* (bootstrap/scheduler.go, runLockedLoop): on a tick take the job's Redis   *)
(* mutex or skip the tick, run the work, release the mutex.  The mutex has a *)
(* fixed expiry that nothing extends, so a slow run may lose it while it     *)
(* goes on.  What a run does is left to the modules that extend this one.    *)
EXTENDS FiniteSets

CONSTANTS Schedulers,   \* scheduler processes
          Jobs,         \* names of the periodic jobs
          NoOne         \* the value of a mutex nobody holds

ASSUME NoOneAssumption == NoOne \notin Schedulers

VARIABLES mutex,   \* per job: the scheduler whose value is stored in Redis
          inside,  \* per job: the schedulers that are running its work
          lapsed   \* history: jobs of which a run has outlived its mutex

loopVars == <<mutex, inside, lapsed>>

LoopTypeOK ==
    /\ mutex \in [Jobs -> Schedulers \cup {NoOne}]
    /\ inside \in [Jobs -> SUBSET Schedulers]
    /\ lapsed \subseteq Jobs

LoopInit ==
    /\ mutex = [j \in Jobs |-> NoOne]
    /\ inside = [j \in Jobs |-> {}]
    /\ lapsed = {}

(* Mutant: a tick that does not get the mutex runs all the same.             *)
EnterJobAnyway(s, j) ==
    /\ s \notin inside[j]
    /\ mutex' = [mutex EXCEPT ![j] = IF @ = NoOne THEN s ELSE @]
    /\ inside' = [inside EXCEPT ![j] = @ \cup {s}]
    /\ UNCHANGED lapsed

(* The ticker fires and mutex.Lock() succeeds.  When it does not the tick is *)
(* skipped and nothing changes.                                              *)
EnterJob(s, j) ==
    /\ mutex[j] = NoOne
    /\ s \notin inside[j]
    /\ mutex' = [mutex EXCEPT ![j] = s]
    /\ inside' = [inside EXCEPT ![j] = @ \cup {s}]
    /\ UNCHANGED lapsed

(* mutex.Unlock() deletes the key only while it still holds s's value.       *)
Released(s, j) == IF mutex[j] = s THEN NoOne ELSE mutex[j]

(* The work is done; Unlock may fail, which is only logged.                  *)
LeaveJob(s, j, unlocks) ==
    /\ s \in inside[j]
    /\ mutex' = [mutex EXCEPT ![j] = IF unlocks THEN Released(s, j) ELSE @]
    /\ inside' = [inside EXCEPT ![j] = @ \ {s}]
    /\ UNCHANGED lapsed

(* The process dies: its runs end where they are and its keys stay.          *)
CrashJobs(s) ==
    /\ inside' = [j \in Jobs |-> inside[j] \ {s}]
    /\ UNCHANGED <<mutex, lapsed>>

(* A dead process left this key.                                             *)
Abandoned(j) == mutex[j] # NoOne /\ mutex[j] \notin inside[j]

(* The key's expiry runs out.                                                *)
MutexExpires(j) ==
    /\ mutex[j] # NoOne
    /\ mutex' = [mutex EXCEPT ![j] = NoOne]
    /\ lapsed' = IF mutex[j] \in inside[j] THEN lapsed \cup {j} ELSE lapsed
    /\ UNCHANGED inside
=============================================================================
