---------------------------- MODULE MonitorQuota ----------------------------
(* How many monitors a user owns (app/monitoring.go, CreateMonitor;          *)
(* app/atlassian_importer.go, Import; domain/user.go): the count is compared *)
(* with the limit of the plan before the insert and outside its transaction, *)
(* the plan is the one loaded when the request came in, and an import does   *)
(* not look at the limit at all.  The monitors are those of one user.        *)
EXTENDS Integers, FiniteSets

CONSTANTS Creators,     \* POST requests under way
          MonitorLimit, \* per plan
          MaxImported   \* bound: monitors that come by imports

ASSUME LimitAssumption == MonitorLimit \in [{"free", "pro"} -> Nat]
ASSUME CreatorsAssumption == IsFiniteSet(Creators)
ASSUME ImportedAssumption == MaxImported \in Nat

VARIABLES userPlan,  \* users.plan
          owned,     \* monitors with deleted_at NULL
          creating,  \* the requests, with the plan their user was loaded with
          imported,  \* history: monitors that came by imports
          highest,   \* history: the highest limit of the plans the user had
          crowd      \* history: most requests ever between count and insert

quotaVars == <<userPlan, owned, creating, imported, highest, crowd>>

(* Only well-formed requests and counts exist.                               *)
QuotaTypeOK ==
    /\ userPlan \in {"free", "pro"}
    /\ owned \in Nat /\ imported \in Nat /\ highest \in Nat
    /\ creating \in [Creators -> [at: {"idle", "count", "insert", "publish"},
                                  as: {"free", "pro"}]]
    /\ crowd \in 0..Cardinality(Creators)

QuotaInit ==
    /\ userPlan = "free"
    /\ owned = 0
    /\ creating = [r \in Creators |-> [at |-> "idle", as |-> "free"]]
    /\ imported = 0
    /\ highest = MonitorLimit["free"]
    /\ crowd = 0

CreatorAt(r, place) == creating[r].at = place
CreatorGoto(r, place) == creating' = [creating EXCEPT ![r].at = place]

(* The middleware loads the user.                                            *)
BeginCreate(r) ==
    /\ CreatorAt(r, "idle")
    /\ creating' = [creating EXCEPT ![r] = [at |-> "count", as |-> userPlan]]
    /\ UNCHANGED <<userPlan, owned, imported, highest, crowd>>

CountMonitorsByUserID == owned

(* Mutant: one more than the limit.                                          *)
WithinTierInclusive(count, as) == count <= MonitorLimit[as]
WithinTier(count, as) == count < MonitorLimit[as]

(* The limit, then the checks of the input.                                  *)
CheckLimit(r) ==
    /\ CreatorAt(r, "count")
    /\ \/ WithinTier(CountMonitorsByUserID, creating[r].as) /\ CreatorGoto(r, "insert")
       \/ CreatorGoto(r, "idle")
    /\ LET between == Cardinality({q \in Creators : creating'[q].at = "insert"}) IN
       crowd' = IF between > crowd THEN between ELSE crowd
    /\ UNCHANGED <<userPlan, owned, imported, highest>>

(* One INSERT, or a transaction with the bindings; it may fail.              *)
InsertMonitor(r) ==
    /\ CreatorAt(r, "insert")
    /\ \/ owned' = owned + 1 /\ CreatorGoto(r, "publish")
       \/ UNCHANGED owned /\ CreatorGoto(r, "idle")
    /\ UNCHANGED <<userPlan, imported, highest, crowd>>

(* When the event cannot be published the monitor stays, and the request     *)
(* ends in an error.                                                         *)
PublishCreated(r) ==
    /\ CreatorAt(r, "publish")
    /\ CreatorGoto(r, "idle")
    /\ UNCHANGED <<userPlan, owned, imported, highest, crowd>>

(* DELETE of one monitor.                                                    *)
DeleteOne ==
    /\ owned > 0
    /\ owned' = owned - 1
    /\ UNCHANGED <<userPlan, creating, imported, highest, crowd>>

(* The monitors of an import commit together, and no event is published.     *)
ImportMonitors(n) ==
    /\ owned' = owned + n
    /\ imported' = imported + n
    /\ UNCHANGED <<userPlan, creating, highest, crowd>>

UserPlanChanges ==
    /\ userPlan' \in {"free", "pro"} \ {userPlan}
    /\ highest' = IF MonitorLimit[userPlan'] > highest THEN MonitorLimit[userPlan'] ELSE highest
    /\ UNCHANGED <<owned, creating, imported, crowd>>

QuotaNext ==
    \/ \E r \in Creators : BeginCreate(r) \/ CheckLimit(r) \/ InsertMonitor(r) \/ PublishCreated(r)
    \/ DeleteOne
    \/ \E n \in 1..MaxImported : imported + n <= MaxImported /\ ImportMonitors(n)
    \/ UserPlanChanges

QuotaSpec == QuotaInit /\ [][QuotaNext]_quotaVars

(* A user owns more monitors than the highest limit he ever had only by      *)
(* imports and by requests that were between count and insert at once, one   *)
(* for each of them but the first (CreateMonitor, monitoring.go:300-310).    *)
OwnedWithinLimit ==
    owned <= imported + highest + (IF crowd = 0 THEN 0 ELSE crowd - 1)
=============================================================================
