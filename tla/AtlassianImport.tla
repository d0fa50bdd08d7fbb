-------------------------- MODULE AtlassianImport --------------------------
(* The import of an Atlassian Statuspage export (app/atlassian_importer.go): *)
(* components with a URL become monitors, their incidents become incidents   *)
(* of these monitors, all in one transaction.  Names, texts and times are    *)
(* left out.                                                                 *)
EXTENDS Integers, Sequences

CONSTANT Exports  \* [components: sets of [id, url: BOOLEAN], incidents: sequences of
                  \*  [components: sequences of ids, status, resolved: BOOLEAN,
                  \*   updates: sequences of statuses]]

ASSUME ExportsAssumption == \A e \in Exports : Len(e.incidents) \in Nat

VARIABLES upload,   \* the file
          turn,     \* 0 before the components, then the incident whose turn it is
          written,  \* what the transaction has written
          stored,   \* what the import left in the database
          outcome   \* "running", "committed" or "failed"

importVars == <<upload, turn, written, stored, outcome>>

(* The statuses of Atlassian, and those of incidents.                        *)
AtlassianState ==
    [investigating |-> "investigating", identified |-> "identified",
     monitoring |-> "monitoring", resolved |-> "resolved", postmortem |-> "resolved"]
MapAtlassianState(s) == IF s \in DOMAIN AtlassianState THEN AtlassianState[s] ELSE "unknown"

(* The place of the first of the incident's components that became a monitor.*)
PickMonitorForIncident(inc, monitors) ==
    {k \in DOMAIN inc.components :
        /\ inc.components[k] \in monitors
        /\ \A j \in 1..(k - 1) : inc.components[j] \notin monitors}

Nothing == [monitors |-> {}, incidents |-> {}]

(* The unique index on incidents with resolved_at NULL.                      *)
HasOpen(rows, id) == \E r \in rows : r.monitor = id /\ ~r.closed

(* What makes a turn of the second loop fail: a status nobody knows, or the  *)
(* index.  Mutant: the incident is inserted with its resolved_at, which the  *)
(* index then does not see.                                                  *)
TurnFailsUnlessClosed(rows, inc, id) ==
    \/ MapAtlassianState(inc.status) = "unknown"
    \/ ~inc.resolved /\ HasOpen(rows, id)
    \/ \E u \in DOMAIN inc.updates : MapAtlassianState(inc.updates[u]) = "unknown"
TurnFails(rows, inc, id) ==
    \/ MapAtlassianState(inc.status) = "unknown"
    \/ HasOpen(rows, id)
    \/ \E u \in DOMAIN inc.updates : MapAtlassianState(inc.updates[u]) = "unknown"

(* The rows of incident i of the file: Create, Resolve, and the updates.     *)
Imported(i, inc, id) ==
    [of |-> i, monitor |-> id, closed |-> inc.resolved,
     state |-> IF inc.resolved THEN "resolved" ELSE MapAtlassianState(inc.status),
     updates |-> [u \in DOMAIN inc.updates |-> MapAtlassianState(inc.updates[u])]]

-----------------------------------------------------------------------------
ImportTypeOK ==
    /\ turn \in 0..(Len(upload.incidents) + 1)
    /\ written.monitors \subseteq {c.id : c \in upload.components}
    /\ \A r \in written.incidents :
          /\ r.of \in 1..Len(upload.incidents)
          /\ r.monitor \in {c.id : c \in upload.components}
    /\ stored \in {Nothing, written}
    /\ outcome \in {"running", "committed", "failed"}

ImportInit ==
    /\ upload \in Exports
    /\ turn = 0
    /\ written = Nothing
    /\ stored = Nothing
    /\ outcome = "running"

(* The first loop.                                                           *)
ImportComponents ==
    /\ outcome = "running" /\ turn = 0
    /\ written' = [written EXCEPT !.monitors = {c.id : c \in {d \in upload.components : d.url}}]
    /\ turn' = 1
    /\ UNCHANGED <<upload, stored, outcome>>

(* One turn of the second loop: an incident of no imported component is left *)
(* out.                                                                      *)
ImportIncident ==
    /\ outcome = "running" /\ turn \in 1..Len(upload.incidents)
    /\ LET inc == upload.incidents[turn]
       IN \/ /\ \A k \in DOMAIN inc.components : inc.components[k] \notin written.monitors
             /\ UNCHANGED written
          \/ \E k \in PickMonitorForIncident(inc, written.monitors) :
                /\ ~TurnFails(written.incidents, inc, inc.components[k])
                /\ written' = [written EXCEPT !.incidents =
                                  @ \cup {Imported(turn, inc, inc.components[k])}]
    /\ turn' = turn + 1
    /\ UNCHANGED <<upload, stored, outcome>>

Commit ==
    /\ outcome = "running" /\ turn = Len(upload.incidents) + 1
    /\ stored' = written
    /\ outcome' = "committed"
    /\ UNCHANGED <<upload, turn, written>>

(* An error of any step, or of any query of it, rolls everything back.       *)
Rollback ==
    /\ outcome = "running"
    /\ outcome' = "failed"
    /\ UNCHANGED <<upload, turn, written, stored>>

ImportNext == ImportComponents \/ ImportIncident \/ Commit \/ Rollback

ImportSpec == ImportInit /\ [][ImportNext]_importVars

-----------------------------------------------------------------------------
(* What the file asks for, said without the order of the loop: the incidents *)
(* that touch a component with a URL.                                        *)
Attached(e) ==
    {i \in 1..Len(e.incidents) :
        \E c \in e.components, k \in DOMAIN e.incidents[i].components :
            c.url /\ e.incidents[i].components[k] = c.id}

(* An import leaves either nothing or every incident that touches an         *)
(* imported component, once, on a monitor it imported, with its resolution   *)
(* and all its updates in statuses we know; and it can succeed only if on no *)
(* monitor an unresolved incident is followed by another one, so that        *)
(* incident detection never meets two open incidents of a monitor (Import,   *)
(* atlassian_importer.go:88-196).                                            *)
ImportMatches ==
    IF outcome # "committed" THEN stored = Nothing
    ELSE LET rows == stored.incidents
         IN /\ {r.of : r \in rows} = Attached(upload)
            /\ \A r \in rows :
                  LET inc == upload.incidents[r.of]
                  IN /\ r.monitor \in stored.monitors
                     /\ r.closed <=> inc.resolved
                     /\ DOMAIN r.updates = DOMAIN inc.updates
                     /\ \A u \in DOMAIN r.updates : r.updates[u] # "unknown"
            /\ \A r, q \in rows :
                  /\ r.of = q.of => r = q
                  /\ r.of < q.of /\ r.monitor = q.monitor => r.closed
=============================================================================
