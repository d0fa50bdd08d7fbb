----------------------------- MODULE StatusPage -----------------------------
(* The public status page of one user (app/monitoring.go, GetStatusPage) and *)
(* its badge (adapter/http/badge.go).  A page is put together from many      *)
(* statements outside any transaction, while checks move the status of       *)
(* monitors, maintenance windows begin and end, and the user edits groups,   *)
(* monitors and branding.  Names, texts, uptimes and incident lists are left *)
(* out: nothing on the page depends on them.                                 *)
EXTENDS Integers, FiniteSets

CONSTANTS Shown,        \* the user's monitors
          Groups,       \* ids of monitor groups
          Theirs,       \* those of other users
          Visits,       \* requests for the page, its badge or its feed
          NoGroup,      \* group_id NULL, and nil on a page
          MaxPageFailures, \* bound: failing statements of a request
          MaxChanges    \* bound: what changes while pages are read

ASSUME GroupAssumption == NoGroup \notin Groups /\ Theirs \subseteq Groups
ASSUME PageBoundsAssumption == MaxPageFailures \in Nat /\ MaxChanges \in Nat

VARIABLES health,       \* monitors.current_status
          public,       \* monitors with is_public, not deleted
          window,       \* monitors with an active maintenance window
          groupOf,      \* monitors.group_id
          group,        \* the rows of monitor_groups
          pagePlan,     \* users.plan
          visit,        \* the requests
          changes       \* how much has changed

pageRows == <<health, public, window, groupOf, group, pagePlan>>
pageVars == <<pageRows, visit, changes>>

Health == {"up", "down", "unknown"}
Page == [at |-> "idle", plan |-> "free", mons |-> {}, left |-> {}, was |-> [m \in {} |-> "up"],
         inGroup |-> [m \in {} |-> NoGroup], allUp |-> TRUE, groups |-> {},
         branding |-> FALSE, failures |-> 0, fine |-> {}, dropped |-> {}]

(* Only well-formed rows and pages exist, a group_id points to a row, and a  *)
(* page shows monitors of this user only.                                    *)
StatusPageTypeOK ==
    /\ health \in [Shown -> Health]
    /\ public \subseteq Shown /\ window \subseteq Shown
    /\ group \subseteq Groups
    /\ groupOf \in [Shown -> group \cup {NoGroup}]
    /\ pagePlan \in {"free", "pro"}
    /\ \A v \in Visits :
          /\ visit[v].at \in {"idle", "list", "groups", "monitors", "branding", "sections", "sent"}
          /\ visit[v].left \subseteq visit[v].mons /\ visit[v].mons \subseteq Shown
          /\ visit[v].was \in [visit[v].mons -> Health]
          /\ visit[v].failures \in 0..MaxPageFailures
    /\ changes \in 0..MaxChanges

StatusPageInit ==
    /\ health \in [Shown -> Health]
    /\ public = Shown
    /\ window = {}
    /\ group \in SUBSET Groups
    /\ groupOf \in [Shown -> (group \ Theirs) \cup {NoGroup}]
    /\ pagePlan \in {"free", "pro"}
    /\ visit = [v \in Visits |-> Page]
    /\ changes = 0

-----------------------------------------------------------------------------
(* Requests.                                                                 *)

VisitAt(v, place) == visit[v].at = place
Reading(v) == visit[v].at \notin {"idle", "sent"}
OnlyVisit == UNCHANGED <<pageRows, changes>>

MayFail(v) == visit[v].failures < MaxPageFailures

(* A monitor that is not up counts against the banner.                       *)
Fine(m) == health[m] = "up" \/ m \in window

(* GetBySlug loads the owner, with the plan.                                 *)
GetBySlug(v) ==
    /\ VisitAt(v, "idle")
    /\ visit' = [visit EXCEPT ![v].at = "list", ![v].plan = pagePlan]
    /\ OnlyVisit

(* ListPublicBySlug: the statuses the page will show.                        *)
ListPublicBySlug(v) ==
    /\ VisitAt(v, "list")
    /\ visit' = [visit EXCEPT ![v].at = "groups", ![v].mons = public, ![v].left = public,
                              ![v].was = [m \in public |-> health[m]],
                              ![v].fine = {m \in public : Fine(m)}]
    /\ OnlyVisit

(* ListMemberships; when it fails all are ungrouped.                         *)
ListMemberships(v) ==
    /\ VisitAt(v, "groups")
    /\ \/ visit' = [visit EXCEPT ![v].at = "monitors",
                                 ![v].inGroup = [m \in visit[v].mons |-> groupOf[m]]]
       \/ /\ MayFail(v)
          /\ visit' = [visit EXCEPT ![v].at = "monitors", ![v].failures = @ + 1,
                                    ![v].inGroup = [m \in visit[v].mons |-> NoGroup]]
    /\ OnlyVisit

(* HasActive; a probe that fails counts as no maintenance.  Mutant: it       *)
(* counts as maintenance.                                                    *)
InMaintenanceFailOpen(m, fails) == fails \/ m \in window
InMaintenance(m, fails) == ~fails /\ m \in window

(* One turn of the loop.                                                     *)
ShowMonitor(v) ==
    /\ VisitAt(v, "monitors")
    /\ \E m \in visit[v].left, fails \in {b \in BOOLEAN : b => MayFail(v)} :
        visit' = [visit EXCEPT
            ![v].left = @ \ {m},
            ![v].allUp = @ /\ (visit[v].was[m] = "up" \/ InMaintenance(m, fails)),
            ![v].failures = IF fails THEN @ + 1 ELSE @]
    /\ OnlyVisit

(* GetBranding, for an owner who was Pro at the start.                       *)
Brand(v) ==
    /\ VisitAt(v, "monitors")
    /\ visit[v].left = {}
    /\ \/ visit' = [visit EXCEPT ![v].at = "sections", ![v].branding = (visit[v].plan = "pro")]
       \/ /\ MayFail(v)
          /\ visit' = [visit EXCEPT ![v].at = "sections", ![v].failures = @ + 1]
    /\ OnlyVisit

(* Mutant: the groups are loaded with the branding, for Pro owners only.     *)
ListSectionsForPro(v) ==
    /\ VisitAt(v, "sections")
    /\ visit' = [visit EXCEPT ![v].at = "sent",
          ![v].groups = IF visit[v].plan = "pro" THEN group \ Theirs ELSE {}]
    /\ OnlyVisit

(* ListByUserID: the groups of the owner; when it fails the page has no      *)
(* sections.                                                                 *)
ListSections(v) ==
    /\ VisitAt(v, "sections")
    /\ \/ visit' = [visit EXCEPT ![v].at = "sent", ![v].groups = group \ Theirs]
       \/ /\ MayFail(v)
          /\ visit' = [visit EXCEPT ![v].at = "sent", ![v].failures = @ + 1,
                                    ![v].dropped = Groups]
    /\ OnlyVisit

(* The owner or the monitors cannot be read, or there is no owner: 404.      *)
NotFound(v) ==
    /\ VisitAt(v, "list")
    /\ visit' = [visit EXCEPT ![v] = Page]
    /\ OnlyVisit

GetStatusPage(v) ==
    \/ GetBySlug(v) \/ ListPublicBySlug(v) \/ ListMemberships(v) \/ ShowMonitor(v)
    \/ Brand(v) \/ ListSections(v) \/ NotFound(v)

(* GetStatusBadge, which knows nothing of maintenance.                       *)
BadgeState(v) ==
    LET shown == {visit[v].was[m] : m \in visit[v].mons} IN
    IF shown = {} THEN "unknown"
    ELSE IF "down" \in shown THEN "down"
    ELSE IF "unknown" \in shown THEN "degraded" ELSE "operational"

-----------------------------------------------------------------------------
(* What changes meanwhile.  Reads under way remember what they lived through. *)

Remember(healthy, gone) ==
    visit' = [v \in Visits |->
        IF Reading(v)
        THEN [visit[v] EXCEPT !.fine = @ \cup (visit[v].mons \cap healthy),
                              !.dropped = @ \cup gone]
        ELSE visit[v]]

FineSoon == {m \in Shown : health'[m] = "up" \/ m \in window'}

Changes ==
    /\ \E v \in Visits : Reading(v)
    /\ changes < MaxChanges
    /\ changes' = changes + 1

(* A check was stored (ProcessCheckResult).                                  *)
UpdateStatusOf(m, st) ==
    /\ Changes
    /\ health[m] # st
    /\ health' = [health EXCEPT ![m] = st]
    /\ UNCHANGED <<public, window, groupOf, group, pagePlan>>
    /\ Remember(FineSoon, {})

(* A window is scheduled, begins, ends or is deleted.                        *)
Maintenance(m) ==
    /\ Changes
    /\ window' = IF m \in window THEN window \ {m} ELSE window \cup {m}
    /\ UNCHANGED <<health, public, groupOf, group, pagePlan>>
    /\ Remember(FineSoon, {})

(* UpdateMonitor or DeleteMonitor.                                           *)
Publish(m) ==
    /\ Changes
    /\ public' = IF m \in public THEN public \ {m} ELSE public \cup {m}
    /\ UNCHANGED <<health, window, groupOf, group, pagePlan, visit>>

CreateMonitorGroup(g) ==
    /\ Changes
    /\ g \notin group
    /\ group' = group \cup {g}
    /\ UNCHANGED <<health, public, window, groupOf, pagePlan, visit>>

(* ON DELETE SET NULL.  Mutant: the monitors keep the id.                    *)
DeleteMonitorGroupOnly(g) ==
    /\ Changes
    /\ g \in group
    /\ group' = group \ {g}
    /\ UNCHANGED <<health, public, window, groupOf, pagePlan>>
    /\ Remember({m \in Shown : Fine(m)}, {g})
DeleteMonitorGroup(g) ==
    /\ Changes
    /\ g \in group
    /\ group' = group \ {g}
    /\ groupOf' = [m \in Shown |-> IF groupOf[m] = g THEN NoGroup ELSE groupOf[m]]
    /\ UNCHANGED <<health, public, window, pagePlan>>
    /\ Remember({m \in Shown : Fine(m)}, {g})

(* The statement looks at the owner of the monitor; of the group the foreign *)
(* key only asks that there is one.                                          *)
AssignMonitorGroup(m, g) ==
    /\ Changes
    /\ g \in group \cup {NoGroup}
    /\ groupOf' = [groupOf EXCEPT ![m] = g]
    /\ UNCHANGED <<health, public, window, group, pagePlan, visit>>

ChangePagePlan ==
    /\ Changes
    /\ pagePlan' \in {"free", "pro"} \ {pagePlan}
    /\ UNCHANGED <<health, public, window, groupOf, group, visit>>

StatusPageNext ==
    \/ \E v \in Visits : GetStatusPage(v)
    \/ \E m \in Shown : \/ \E st \in {"up", "down"} : UpdateStatusOf(m, st)
                        \/ Maintenance(m)
                        \/ Publish(m)
                        \/ \E g \in Groups \cup {NoGroup} : AssignMonitorGroup(m, g)
    \/ \E g \in Groups : CreateMonitorGroup(g) \/ DeleteMonitorGroup(g)
    \/ ChangePagePlan

StatusPageSpec == StatusPageInit /\ [][StatusPageNext]_pageVars

-----------------------------------------------------------------------------
(* Properties.                                                               *)

(* The banner says "all up" only if every monitor on the page was up or in   *)
(* maintenance at some moment of the request, and an operational badge goes  *)
(* with such a banner.  The status and the window of a monitor are read      *)
(* apart (GetStatusPage, monitoring.go:771-830; badgeState, badge.go:38-62). *)
AllUpWasTrue ==
    \A v \in Visits : VisitAt(v, "sent") =>
        /\ visit[v].allUp => visit[v].mons \subseteq visit[v].fine
        /\ BadgeState(v) = "operational" => visit[v].allUp

(* A page that shows a monitor in a group of its owner also lists the group, *)
(* unless the group was deleted during the request or the list failed: the   *)
(* memberships and the groups are read in different statements               *)
(* (monitoring.go:785-860), and the front end leaves out a monitor whose     *)
(* group is not listed (frontend/app/status/[slug]/page.tsx:94-110).         *)
SectionsResolve ==
    \A v \in Visits : VisitAt(v, "sent") =>
        \A m \in visit[v].mons :
            visit[v].inGroup[m] \in visit[v].groups \cup visit[v].dropped \cup Theirs \cup {NoGroup}
=============================================================================
