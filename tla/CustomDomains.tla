--------------------------- MODULE CustomDomains ---------------------------
(* Custom domains of status pages (app/custom_domain.go): a row goes from    *)
(* pending over validated to active while two jobs of the schedulers probe   *)
(* it, obtain certificates (adapter/acme/lego_provisioner.go) and renew      *)
(* them, users add and delete rows through the API, and each API process     *)
(* routes by a map of active host names it keeps in memory.                  *)
(*                                                                           *)
(* A row is identified by <<user, host, n>>: the n-th time the user asks for *)
(* the host.  Tokens are unguessable, so a probe finds the token of a row    *)
(* only if its user controls the host.                                       *)
EXTENDS LockedLoop, Integers, Sequences, FiniteSets

CONSTANTS Users, Hosts,
          Controls,       \* who serves the .well-known path of a host
          MaxAttempts,    \* bound: registrations per user and host
          ListLimit,      \* LIMIT of the list of domains to validate
          Apis,           \* API processes
          DomainRequests, \* requests under way
          MaxFailures     \* bound: failures, crashes and runs outliving their mutex

Validate == "custom-domain"
Renew == "cert-renewal"

ASSUME ControlsAssumption == Controls \in [Hosts -> Users]
ASSUME JobsAssumption == {Validate, Renew} \subseteq Jobs
ASSUME DomainFailuresAssumption == MaxFailures \in Nat
ASSUME ListLimitAssumption == ListLimit \in Nat \ {0}

VARIABLES status,    \* custom_domains.status; "unused" and "deleted" are no rows
          created,   \* custom_domains.created_at: the rows in the order of creation
          cert,      \* custom_domain_certs of the row, by what is left of it
          run,       \* where each scheduler is in each job
          routes,    \* hostnameCache of each API process
          request,   \* DELETE requests that have yet to refresh the cache
          failures   \* how much has failed so far

domainVars == <<loopVars, status, created, cert, run, routes, request, failures>>

Ids == Users \X Hosts \X (1..MaxAttempts)
User(d) == d[1]
Host(d) == d[2]
NoId == <<>>

Waiting == {"pending", "validated", "failed"}
Stored == Waiting \cup {"active"}
Listed == [id: Ids, was: Stored]

NoRun == [at |-> "list", rows |-> {}, cur |-> NoId, got |-> NoId]
Runs == [at: {"list", "next", "obtain", "store", "activate", "fail"},
         rows: SUBSET Listed, cur: Ids \cup {NoId}, got: Ids \cup {NoId}]

Unrouted == [h \in Hosts |-> NoOne]
Maps == [Hosts -> Users \cup {NoOne}]
NoRequest == [at |-> "idle", map |-> Unrouted]

(* Only well-formed rows, runs and maps exist.                               *)
DomainsTypeOK ==
    /\ LoopTypeOK
    /\ status \in [Ids -> Stored \cup {"unused", "deleted"}]
    /\ created \in Seq(Ids)
    /\ cert \in [Ids -> {"none", "fresh", "expiring"}]
    /\ run \in [{Validate, Renew} -> [Schedulers -> Runs]]
    /\ routes \in [Apis -> Maps]
    /\ request \in [DomainRequests -> [at: {"idle", "list", "store"}, map: Maps]]
    /\ failures \in 0..MaxFailures

DomainsInit ==
    /\ LoopInit
    /\ status = [d \in Ids |-> "unused"]
    /\ created = <<>>
    /\ cert = [d \in Ids |-> "none"]
    /\ run = [j \in {Validate, Renew} |-> [s \in Schedulers |-> NoRun]]
    /\ routes = [a \in Apis |-> Unrouted]
    /\ request = [r \in DomainRequests |-> NoRequest]
    /\ failures = 0

-----------------------------------------------------------------------------
(* Statements.                                                               *)

Live(d) == status[d] \in Stored

(* UPDATE ... WHERE id = $1: no row, no effect, and no look at the status.   *)
UpdateStatus(d, st) == IF Live(d) THEN [status EXCEPT ![d] = st] ELSE status

(* Mutant: failed rows are not retried.                                      *)
ListPendingOnce == {d \in Ids : status[d] \in {"pending", "validated"}}

(* ORDER BY created_at LIMIT 100.                                            *)
NotActive == {d \in Ids : status[d] \in Waiting}
Before(e, d) ==
    \E i, k \in DOMAIN created : i < k /\ created[i] = e /\ created[k] = d
Crowded(d) == Cardinality({e \in NotActive : Before(e, d)}) >= ListLimit
ListPending == {d \in NotActive : ~Crowded(d)}

(* Host names of certificates with less than thirty days left.               *)
ListExpiring ==
    {d \in Ids : status[d] = "active" /\ cert[d] = "expiring"}

GetByHostname(h) == {d \in Ids : Live(d) /\ Host(d) = h}

(* Mutant: the map is built without WHERE status = 'active'.                 *)
ListActiveHostnamesAll ==
    [h \in Hosts |-> IF GetByHostname(h) # {}
                     THEN User(CHOOSE d \in GetByHostname(h) : TRUE) ELSE NoOne]

ListActiveHostnames ==
    [h \in Hosts |->
        IF \E d \in GetByHostname(h) : status[d] = "active"
        THEN User(CHOOSE d \in GetByHostname(h) : status[d] = "active")
        ELSE NoOne]

Fails == failures < MaxFailures /\ failures' = failures + 1

-----------------------------------------------------------------------------
(* Requests to the API.                                                      *)

(* POST /api/custom-domains: the host name is free, or the insert fails.     *)
RequestDomain(d) ==
    /\ status[d] = "unused"
    /\ GetByHostname(Host(d)) = {}
    /\ status' = [status EXCEPT ![d] = "pending"]
    /\ created' = Append(created, d)
    /\ UNCHANGED <<loopVars, cert, run, routes, request, failures>>

(* DELETE /api/custom-domains/{id}; the certificate goes by cascade.         *)
DeleteDomain(r, d) ==
    /\ request[r].at = "idle"
    /\ Live(d)
    /\ status' = [status EXCEPT ![d] = "deleted"]
    /\ cert' = [cert EXCEPT ![d] = "none"]
    /\ request' = [request EXCEPT ![r].at = "list"]
    /\ UNCHANGED <<loopVars, created, run, routes, failures>>

(* refreshHostnameCache reads the table; when that fails the map stays.      *)
RefreshLists(r) ==
    /\ request[r].at = "list"
    /\ \/ /\ request' = [request EXCEPT ![r] = [at |-> "store", map |-> ListActiveHostnames]]
          /\ UNCHANGED failures
       \/ /\ Fails
          /\ request' = [request EXCEPT ![r] = NoRequest]
    /\ UNCHANGED <<loopVars, status, created, cert, run, routes>>

(* ... and replaces the map under the lock of the process it runs in.        *)
RefreshStores(r, a) ==
    /\ request[r].at = "store"
    /\ routes' = [routes EXCEPT ![a] = request[r].map]
    /\ request' = [request EXCEPT ![r] = NoRequest]
    /\ UNCHANGED <<loopVars, status, created, cert, run, failures>>

(* A new API process preloads its map.                                       *)
StartApi(a) ==
    /\ routes' = [routes EXCEPT ![a] = ListActiveHostnames]
    /\ UNCHANGED <<loopVars, status, created, cert, run, request, failures>>

-----------------------------------------------------------------------------
(* The validation and the renewal job.                                       *)

At(s, j, place) == s \in inside[j] /\ run[j][s].at = place
Goto(s, j, place) == run' = [run EXCEPT ![j][s].at = place]
OnlyRun == UNCHANGED <<loopVars, status, created, cert, routes, request, failures>>

StartRun(s, j) ==
    /\ EnterJob(s, j)
    /\ UNCHANGED <<status, created, cert, run, routes, request, failures>>

(* ListPending or ListExpiringHostnames; an error ends the run.              *)
ListRows(s, j) ==
    /\ At(s, j, "list")
    /\ \/ /\ UNCHANGED failures
          /\ run' = [run EXCEPT ![j][s] = [NoRun EXCEPT !.at = "next",
                !.rows = {[id |-> d, was |-> status[d]] :
                             d \in IF j = Validate THEN ListPending ELSE ListExpiring}]]
       \/ Fails /\ run' = [run EXCEPT ![j][s] = [NoRun EXCEPT !.at = "next"]]
    /\ UNCHANGED <<loopVars, status, created, cert, routes, request>>

(* validateDNS: probe, then one UPDATE, which may fail.                      *)
ValidateDNS(s) ==
    /\ At(s, Validate, "next")
    /\ \E row \in run[Validate][s].rows :
        /\ row.was \in {"pending", "failed"}
        /\ run' = [run EXCEPT ![Validate][s].rows = @ \ {row}]
        /\ \/ /\ status' = UpdateStatus(row.id,
                    IF Controls[Host(row.id)] = User(row.id) THEN "validated" ELSE "failed")
              /\ UNCHANGED failures
           \/ Fails /\ status' \in {UpdateStatus(row.id, "failed"), status}
    /\ UNCHANGED <<loopVars, created, cert, routes, request>>

(* Provision begins by looking the host name up again.                       *)
ProvisionLooksUp(s, j) ==
    /\ At(s, j, "next")
    /\ \E row \in run[j][s].rows :
        /\ row.was \in {"validated", "active"}
        /\ \/ \E d \in GetByHostname(Host(row.id)) :
                run' = [run EXCEPT ![j][s] = [at |-> "store", cur |-> row.id,
                                              got |-> d, rows |-> @.rows \ {row}]]
           \/ /\ GetByHostname(Host(row.id)) = {}
              /\ run' = [run EXCEPT ![j][s] = [at |-> "fail", cur |-> row.id,
                                               got |-> NoId, rows |-> @.rows \ {row}]]
    /\ OnlyRun

(* Obtain succeeds and the certificate is stored under the id looked up.     *)
ProvisionStores(s, j) ==
    /\ At(s, j, "store")
    /\ Live(run[j][s].got)
    /\ cert' = [cert EXCEPT ![run[j][s].got] = "fresh"]
    /\ Goto(s, j, IF j = Validate THEN "activate" ELSE "next")
    /\ UNCHANGED <<loopVars, status, created, routes, request, failures>>

(* Mutant: a failed Obtain is only logged.                                   *)
ProvisionFailsLogged(s, j) ==
    /\ At(s, j, "store")
    /\ IF Live(run[j][s].got) THEN Fails ELSE UNCHANGED failures
    /\ Goto(s, j, IF j = Validate THEN "activate" ELSE "next")
    /\ UNCHANGED <<loopVars, status, created, cert, routes, request>>

(* ACME refuses, or the row is gone and the foreign key refuses.             *)
ProvisionFails(s, j) ==
    /\ At(s, j, "store")
    /\ IF Live(run[j][s].got) THEN Fails ELSE UNCHANGED failures
    /\ Goto(s, j, "fail")
    /\ UNCHANGED <<loopVars, status, created, cert, routes, request>>

(* provisionCert flips the row it listed.                                    *)
Activate(s) ==
    /\ At(s, Validate, "activate")
    /\ \/ status' = UpdateStatus(run[Validate][s].cur, "active") /\ UNCHANGED failures
       \/ Fails /\ UNCHANGED status
    /\ Goto(s, Validate, "next")
    /\ UNCHANGED <<loopVars, created, cert, routes, request>>

(* markFailed, which the renewal job does not call.                          *)
MarkFailed(s, j) ==
    /\ At(s, j, "fail")
    /\ \/ /\ status' = IF j = Validate THEN UpdateStatus(run[j][s].cur, "failed") ELSE status
          /\ UNCHANGED failures
       \/ Fails /\ UNCHANGED status
    /\ Goto(s, j, "next")
    /\ UNCHANGED <<loopVars, created, cert, routes, request>>

EndRun(s, j) ==
    /\ At(s, j, "next")
    /\ run[j][s].rows = {}
    /\ \/ LeaveJob(s, j, TRUE) /\ UNCHANGED failures
       \/ LeaveJob(s, j, FALSE) /\ Fails
    /\ run' = [run EXCEPT ![j][s] = NoRun]
    /\ UNCHANGED <<status, created, cert, routes, request>>

Work(s, j) ==
    \/ ListRows(s, j)
    \/ j = Validate /\ (ValidateDNS(s) \/ Activate(s))
    \/ ProvisionLooksUp(s, j) \/ ProvisionStores(s, j) \/ ProvisionFails(s, j)
    \/ MarkFailed(s, j) \/ EndRun(s, j)

-----------------------------------------------------------------------------
(* The environment.                                                          *)

Expire(j) ==
    /\ IF Abandoned(j) THEN UNCHANGED failures ELSE Fails
    /\ MutexExpires(j)
    /\ UNCHANGED <<status, created, cert, run, routes, request>>

CrashScheduler(s) ==
    /\ Fails
    /\ CrashJobs(s)
    /\ run' = [j \in {Validate, Renew} |-> [run[j] EXCEPT ![s] = NoRun]]
    /\ UNCHANGED <<status, created, cert, routes, request>>

CertAges(d) ==
    /\ cert[d] = "fresh"
    /\ cert' = [cert EXCEPT ![d] = "expiring"]
    /\ UNCHANGED <<loopVars, status, created, run, routes, request, failures>>

DomainsNext ==
    \/ \E d \in Ids : RequestDomain(d) \/ CertAges(d)
    \/ \E r \in DomainRequests : \/ \E d \in Ids : DeleteDomain(r, d)
                                 \/ RefreshLists(r)
                                 \/ \E a \in Apis : RefreshStores(r, a)
    \/ \E a \in Apis : StartApi(a)
    \/ \E j \in {Validate, Renew} : Expire(j)
    \/ \E s \in Schedulers : CrashScheduler(s)
    \/ \E s \in Schedulers, j \in {Validate, Renew} : StartRun(s, j) \/ Work(s, j)

DomainsSpec == DomainsInit /\ [][DomainsNext]_domainVars

(* Tickers keep firing, runs go on, and keys of dead processes expire.       *)
DomainsFairness ==
    \A j \in {Validate, Renew} :
        /\ WF_domainVars(\E s \in Schedulers : StartRun(s, j))
        /\ WF_domainVars(Abandoned(j) /\ Expire(j))
        /\ \A s \in Schedulers : WF_domainVars(Work(s, j))

-----------------------------------------------------------------------------
(* Properties.                                                               *)

(* A row is active only with a certificate stored for it, although Provision *)
(* finds the row by host name and the row it was called for may be deleted,  *)
(* registered again or moved by another run meanwhile (provisionCert,        *)
(* lego_provisioner.go:136-171).                                             *)
ActiveHasCert == \A d \in Ids : status[d] = "active" => cert[d] # "none"

(* No API process ever routes a host to a user who does not control it, also *)
(* with stale rows in hand and refreshes finishing out of order              *)
(* (LookupHostname, custom_domain.go:105-131).                               *)
RoutesOnlyOwner ==
    \A a \in Apis, h \in Hosts : routes[a][h] # NoOne => routes[a][h] = Controls[h]

(* As long as no run of the validation job outlives its mutex, rows move     *)
(* only along the life cycle of domain/custom_domain.go, whichever schedulers*)
(* run it, crash in it or fail to unlock (runLockedLoop,                     *)
(* scheduler.go:231-241): an active row stays active until it is deleted,    *)
(* and only a validated one becomes active.                                  *)
Move(d) ==
    \/ status'[d] = status[d]
    \/ <<status[d], status'[d]>> \in
          {<<"unused", "pending">>, <<"pending", "validated">>, <<"failed", "validated">>,
           <<"pending", "failed">>, <<"validated", "failed">>, <<"validated", "active">>}
    \/ Live(d) /\ status'[d] = "deleted"
LifecycleUnderLock ==
    [][Validate \notin lapsed => \A d \in Ids : Move(d)]_domainVars

(* A domain whose host serves its token becomes active or is deleted, also   *)
(* after failed probes, refused certificates and crashed schedulers: failed  *)
(* rows are tried again (RunValidationOnce, custom_domain.go:138-160); unless*)
(* as many older rows as the list takes are waiting.                         *)
ServedBecomesActive ==
    \A d \in Ids : Controls[Host(d)] = User(d) =>
        (status[d] = "pending" ~> (status[d] \in {"active", "deleted"} \/ Crowded(d)))
=============================================================================
