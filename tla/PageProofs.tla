----------------------------- MODULE PageProofs -----------------------------
(* Proofs about the public side: CustomDomains, StatusPage and Subscriptions *)
(* for any number of domains, schedulers, visits, groups and subscribers.    *)
EXTENDS CustomDomains, StatusPage, Subscriptions, TLAPS

-----------------------------------------------------------------------------
(* Custom domains: runs and loops                                            *)

JobNames == {Validate, Renew}

\* One scheduler moves in one job.
LEMMA RunUpdate ==
  ASSUME DomainsTypeOK, NEW j \in JobNames, NEW s \in Schedulers, NEW x,
         run' = [run EXCEPT ![j][s] = x]
  PROVE  /\ x \in Runs => run' \in [JobNames -> [Schedulers -> Runs]]
         /\ run'[j][s] = x
         /\ \A k \in JobNames, t \in Schedulers : k # j \/ t # s => run'[k][t] = run[k][t]
BY DEF DomainsTypeOK, JobNames

LEMMA RunFields ==
  ASSUME NEW x \in Runs,
         NEW place \in {"list", "next", "obtain", "store", "activate", "fail"}
  PROVE  /\ [x EXCEPT !.at = place] \in Runs
         /\ [x EXCEPT !.at = place].at = place
         /\ [x EXCEPT !.at = place].rows = x.rows
         /\ [x EXCEPT !.at = place].cur = x.cur
         /\ [x EXCEPT !.at = place].got = x.got
BY DEF Runs

LEMMA NoRunIsRun == NoRun \in Runs
BY DEF NoRun, Runs

\* The rows a run lists are well typed.
LEMMA ListRun ==
  ASSUME DomainsTypeOK, NEW D \in SUBSET Ids, \A d \in D : Live(d)
  PROVE  LET x == [NoRun EXCEPT !.at = "next", !.rows = {[id |-> d, was |-> status[d]] : d \in D}] IN
         /\ x \in Runs /\ x.at = "next"
         /\ x.rows = {[id |-> d, was |-> status[d]] : d \in D}
<1>1. {[id |-> d, was |-> status[d]] : d \in D} \in SUBSET Listed
  BY DEF Listed, Live
<1> QED BY <1>1 DEF NoRun, Runs

\* UPDATE ... WHERE id = $1 touches one live row.
LEMMA UpdateStatusIs ==
  ASSUME DomainsTypeOK, NEW d \in Ids, NEW st \in Stored
  PROVE  /\ UpdateStatus(d, st) \in [Ids -> Stored \cup {"unused", "deleted"}]
         /\ \A e \in Ids : UpdateStatus(d, st)[e] = IF e = d /\ Live(d) THEN st ELSE status[e]
BY DEF DomainsTypeOK, UpdateStatus

LEMMA FailsType ==
  ASSUME failures \in 0..MaxFailures, Fails
  PROVE  failures' \in 0..MaxFailures
BY DomainFailuresAssumption DEF Fails

LEMMA LoopEnter ==
  ASSUME LoopTypeOK, NEW s \in Schedulers, NEW j \in Jobs, EnterJob(s, j)
  PROVE  LoopTypeOK'
BY DEF LoopTypeOK, EnterJob

LEMMA LoopLeave ==
  ASSUME LoopTypeOK, NEW s \in Schedulers, NEW j \in Jobs, NEW unlocks \in BOOLEAN,
         LeaveJob(s, j, unlocks)
  PROVE  LoopTypeOK'
<1>1. Released(s, j) \in Schedulers \cup {NoOne}
  BY DEF LoopTypeOK, Released
<1>2. (IF unlocks THEN Released(s, j) ELSE mutex[j]) \in Schedulers \cup {NoOne}
  BY <1>1 DEF LoopTypeOK
<1> QED BY <1>2 DEF LoopTypeOK, LeaveJob

LEMMA LoopCrash ==
  ASSUME LoopTypeOK, NEW s \in Schedulers, CrashJobs(s)
  PROVE  LoopTypeOK'
BY DEF LoopTypeOK, CrashJobs

LEMMA LoopExpires ==
  ASSUME LoopTypeOK, NEW j \in Jobs, MutexExpires(j)
  PROVE  LoopTypeOK'
BY DEF LoopTypeOK, MutexExpires

\* What the steps of a run do to its record.
LEMMA ListRowsRun ==
  ASSUME DomainsTypeOK, NEW j \in JobNames, NEW s \in Schedulers, ListRows(s, j)
  PROVE  \E x \in Runs :
            /\ run' = [run EXCEPT ![j][s] = x]
            /\ x.at = "next"
            /\ \A dom \in x.rows : /\ dom.id \in Ids /\ dom.was = status[dom.id] /\ Live(dom.id)
                                   /\ j = Validate => dom.was \in Waiting
<1> DEFINE D == IF j = Validate THEN ListPending ELSE ListExpiring
           x == [NoRun EXCEPT !.at = "next", !.rows = {[id |-> d, was |-> status[d]] : d \in D}]
           y == [NoRun EXCEPT !.at = "next"]
<1>1. D \in SUBSET Ids /\ \A d \in D : Live(d) /\ (j = Validate => status[d] \in Waiting)
  BY DEF ListPending, NotActive, ListExpiring, Live, Stored, Waiting
<1>2. x \in Runs /\ x.at = "next" /\ x.rows = {[id |-> d, was |-> status[d]] : d \in D}
  BY <1>1, ListRun
<1>3. y \in Runs /\ y.at = "next" /\ y.rows = {}
  BY DEF NoRun, Runs
<1>4. run' = [run EXCEPT ![j][s] = x] \/ run' = [run EXCEPT ![j][s] = y]
  BY DEF ListRows
<1>5. \A dom \in x.rows : /\ dom.id \in Ids /\ dom.was = status[dom.id] /\ Live(dom.id)
                          /\ j = Validate => dom.was \in Waiting
  BY <1>1, <1>2
<1> HIDE DEF x, y
<1> QED BY <1>2, <1>3, <1>4, <1>5

LEMMA ValidateRun ==
  ASSUME DomainsTypeOK, NEW s \in Schedulers, ValidateDNS(s)
  PROVE  \E dom \in run[Validate][s].rows, x \in Runs :
            /\ dom.id \in Ids /\ dom.was \in {"pending", "failed"}
            /\ run' = [run EXCEPT ![Validate][s] = x]
            /\ x.at = "next" /\ x.rows = run[Validate][s].rows \ {dom}
            /\ status' \in {status, UpdateStatus(dom.id, "failed"),
                            UpdateStatus(dom.id, IF Controls[Host(dom.id)] = User(dom.id)
                                                 THEN "validated" ELSE "failed")}
<1>0. run[Validate][s] \in Runs /\ run[Validate][s].at = "next"
  BY DEF DomainsTypeOK, ValidateDNS, At
<1>1. PICK dom \in run[Validate][s].rows :
        /\ dom.was \in {"pending", "failed"}
        /\ run' = [run EXCEPT ![Validate][s].rows = @ \ {dom}]
        /\ status' \in {status, UpdateStatus(dom.id, "failed"),
                        UpdateStatus(dom.id, IF Controls[Host(dom.id)] = User(dom.id)
                                             THEN "validated" ELSE "failed")}
  BY DEF ValidateDNS
<1> DEFINE x == [run[Validate][s] EXCEPT !.rows = run[Validate][s].rows \ {dom}]
<1>2. run' = [run EXCEPT ![Validate][s] = x]
  BY <1>1
<1>3. x \in Runs /\ x.at = "next" /\ x.rows = run[Validate][s].rows \ {dom}
  BY <1>0 DEF Runs
<1>4. dom.id \in Ids
  BY <1>0, <1>1 DEF Runs, Listed
<1> HIDE DEF x
<1> QED BY <1>1, <1>2, <1>3, <1>4

LEMMA LooksUpRun ==
  ASSUME DomainsTypeOK, NEW j \in JobNames, NEW s \in Schedulers, ProvisionLooksUp(s, j)
  PROVE  \E dom \in run[j][s].rows, x \in Runs :
            /\ dom.id \in Ids /\ dom.was \in {"validated", "active"}
            /\ run' = [run EXCEPT ![j][s] = x]
            /\ x.cur = dom.id /\ x.rows = run[j][s].rows \ {dom}
            /\ \/ x.at = "store" /\ x.got \in Ids /\ Live(x.got) /\ Host(x.got) = Host(dom.id)
               \/ x.at = "fail" /\ ~Live(dom.id)
<1>0. run[j][s] \in Runs
  BY DEF DomainsTypeOK, JobNames
<1>1. PICK dom \in run[j][s].rows :
        /\ dom.was \in {"validated", "active"}
        /\ \/ \E d \in GetByHostname(Host(dom.id)) :
                run' = [run EXCEPT ![j][s] = [at |-> "store", cur |-> dom.id,
                                              got |-> d, rows |-> @.rows \ {dom}]]
           \/ /\ GetByHostname(Host(dom.id)) = {}
              /\ run' = [run EXCEPT ![j][s] = [at |-> "fail", cur |-> dom.id,
                                               got |-> NoId, rows |-> @.rows \ {dom}]]
  BY DEF ProvisionLooksUp
<1>2. dom.id \in Ids
  BY <1>0, <1>1 DEF Runs, Listed
<1>3. ASSUME NEW d \in GetByHostname(Host(dom.id)), NEW x,
             x = [at |-> "store", cur |-> dom.id, got |-> d, rows |-> run[j][s].rows \ {dom}]
      PROVE  /\ x \in Runs /\ x.cur = dom.id /\ x.rows = run[j][s].rows \ {dom}
             /\ x.at = "store" /\ x.got \in Ids /\ Live(x.got) /\ Host(x.got) = Host(dom.id)
  BY <1>0, <1>2, <1>3 DEF Runs, GetByHostname
<1>4. ASSUME NEW x, GetByHostname(Host(dom.id)) = {},
             x = [at |-> "fail", cur |-> dom.id, got |-> NoId, rows |-> run[j][s].rows \ {dom}]
      PROVE  /\ x \in Runs /\ x.cur = dom.id /\ x.rows = run[j][s].rows \ {dom}
             /\ x.at = "fail" /\ ~Live(dom.id)
  BY <1>0, <1>2, <1>4 DEF Runs, GetByHostname
<1>5. ASSUME NEW d \in GetByHostname(Host(dom.id)),
             run' = [run EXCEPT ![j][s] = [at |-> "store", cur |-> dom.id,
                                           got |-> d, rows |-> @.rows \ {dom}]]
      PROVE  \E x \in Runs :
                /\ run' = [run EXCEPT ![j][s] = x]
                /\ x.cur = dom.id /\ x.rows = run[j][s].rows \ {dom}
                /\ x.at = "store" /\ x.got \in Ids /\ Live(x.got) /\ Host(x.got) = Host(dom.id)
  <2> DEFINE x == [at |-> "store", cur |-> dom.id, got |-> d, rows |-> run[j][s].rows \ {dom}]
  <2>1. run' = [run EXCEPT ![j][s] = x]
    BY <1>5
  <2>2. /\ x \in Runs /\ x.cur = dom.id /\ x.rows = run[j][s].rows \ {dom}
        /\ x.at = "store" /\ x.got \in Ids /\ Live(x.got) /\ Host(x.got) = Host(dom.id)
    BY <1>3
  <2> HIDE DEF x
  <2> QED BY <2>1, <2>2
<1>6. ASSUME GetByHostname(Host(dom.id)) = {},
             run' = [run EXCEPT ![j][s] = [at |-> "fail", cur |-> dom.id,
                                           got |-> NoId, rows |-> @.rows \ {dom}]]
      PROVE  \E x \in Runs :
                /\ run' = [run EXCEPT ![j][s] = x]
                /\ x.cur = dom.id /\ x.rows = run[j][s].rows \ {dom}
                /\ x.at = "fail" /\ ~Live(dom.id)
  <2> DEFINE x == [at |-> "fail", cur |-> dom.id, got |-> NoId, rows |-> run[j][s].rows \ {dom}]
  <2>1. run' = [run EXCEPT ![j][s] = x]
    BY <1>6
  <2>2. /\ x \in Runs /\ x.cur = dom.id /\ x.rows = run[j][s].rows \ {dom}
        /\ x.at = "fail" /\ ~Live(dom.id)
    BY <1>4, <1>6
  <2> HIDE DEF x
  <2> QED BY <2>1, <2>2
<1> QED BY <1>1, <1>2, <1>5, <1>6

\* A run goes on with what it has, and the table and the certificates change as
\* the step says.
LEMMA GotoRun ==
  ASSUME DomainsTypeOK, NEW j \in JobNames, NEW s \in Schedulers,
         NEW place \in {"list", "next", "obtain", "store", "activate", "fail"},
         Goto(s, j, place)
  PROVE  \E x \in Runs :
            /\ run' = [run EXCEPT ![j][s] = x] /\ x.at = place
            /\ x.rows = run[j][s].rows /\ x.cur = run[j][s].cur /\ x.got = run[j][s].got
<1> DEFINE x == [run[j][s] EXCEPT !.at = place]
<1>1. run' = [run EXCEPT ![j][s] = x]
  BY DEF Goto
<1>2. /\ x \in Runs /\ x.at = place /\ x.rows = run[j][s].rows
      /\ x.cur = run[j][s].cur /\ x.got = run[j][s].got
  <2>1. run[j][s] \in Runs
    BY DEF DomainsTypeOK, JobNames
  <2> QED BY <2>1, RunFields
<1> HIDE DEF x
<1> QED BY <1>1, <1>2

-----------------------------------------------------------------------------
(* Custom domains: types                                                     *)

LEMMA UnroutedIsMap == Unrouted \in Maps
BY DEF Unrouted, Maps

LEMMA ActiveHostnamesAreMap ==
  ASSUME DomainsTypeOK
  PROVE  ListActiveHostnames \in Maps
<1>1. ASSUME NEW h \in Hosts, NEW d \in GetByHostname(h)
      PROVE  User(d) \in Users
  BY DEF GetByHostname, User, Ids
<1>2. ASSUME NEW h \in Hosts, \E d \in GetByHostname(h) : status[d] = "active"
      PROVE  (CHOOSE d \in GetByHostname(h) : status[d] = "active") \in GetByHostname(h)
  BY <1>2
<1>3. ASSUME NEW h \in Hosts PROVE ListActiveHostnames[h] \in Users \cup {NoOne}
  BY <1>1, <1>2 DEF ListActiveHostnames
<1>4. ListActiveHostnames = [h \in Hosts |-> ListActiveHostnames[h]]
  BY DEF ListActiveHostnames
<1> QED BY <1>3, <1>4 DEF Maps

LEMMA DomainsTypeInit == DomainsInit => DomainsTypeOK
<1> SUFFICES ASSUME DomainsInit PROVE DomainsTypeOK
  OBVIOUS
<1>1. LoopTypeOK
  BY DEF DomainsInit, LoopInit, LoopTypeOK
<1>2. run \in [JobNames -> [Schedulers -> Runs]]
  BY NoRunIsRun DEF DomainsInit, JobNames
<1>3. request \in [DomainRequests -> [at: {"idle", "list", "store"}, map: Maps]]
  BY UnroutedIsMap DEF DomainsInit, NoRequest
<1>4. failures \in 0..MaxFailures
  BY DomainFailuresAssumption DEF DomainsInit
<1> QED BY <1>1, <1>2, <1>3, <1>4, UnroutedIsMap DEF DomainsInit, DomainsTypeOK, JobNames

\* What one scheduler does in a job, seen from outside: its own record changes,
\* and so may the table, the certificates and the failures.
LEMMA WorkType ==
  ASSUME DomainsTypeOK, NEW j \in JobNames, NEW s \in Schedulers, Work(s, j)
  PROVE  DomainsTypeOK'
<1>0. j \in Jobs /\ Validate \in JobNames
  BY JobsAssumption DEF JobNames
<1>1. ASSUME NEW x \in Runs, NEW k \in JobNames, run' = [run EXCEPT ![k][s] = x],
             status' \in [Ids -> Stored \cup {"unused", "deleted"}],
             cert' \in [Ids -> {"none", "fresh", "expiring"}],
             failures' = failures \/ Fails, LoopTypeOK', UNCHANGED <<created, routes, request>>
      PROVE  DomainsTypeOK'
  <2>1. run' \in [JobNames -> [Schedulers -> Runs]]
    BY <1>1, RunUpdate
  <2>2. failures' \in 0..MaxFailures
    BY <1>1, FailsType DEF DomainsTypeOK
  <2> QED BY <1>1, <2>1, <2>2 DEF DomainsTypeOK, JobNames
<1>2. ASSUME UNCHANGED loopVars PROVE LoopTypeOK'
  BY <1>2 DEF loopVars, DomainsTypeOK, LoopTypeOK
<1>3. CASE ListRows(s, j)
  <2>1. PICK x \in Runs : run' = [run EXCEPT ![j][s] = x]
    BY <1>3, ListRowsRun
  <2> QED BY <1>1, <1>2, <1>3, <2>1 DEF ListRows, DomainsTypeOK
<1>4. CASE ValidateDNS(s)
  <2>1. PICK dom \in run[Validate][s].rows, x \in Runs :
            /\ dom.id \in Ids
            /\ run' = [run EXCEPT ![Validate][s] = x]
            /\ status' \in {status, UpdateStatus(dom.id, "failed"),
                            UpdateStatus(dom.id, IF Controls[Host(dom.id)] = User(dom.id)
                                                 THEN "validated" ELSE "failed")}
    BY <1>4, ValidateRun
  <2>2. status' \in [Ids -> Stored \cup {"unused", "deleted"}]
    BY <2>1, UpdateStatusIs DEF Stored, Waiting, DomainsTypeOK
  <2> QED BY <1>0, <1>1, <1>2, <1>4, <2>1, <2>2 DEF ValidateDNS, DomainsTypeOK
<1>5. CASE ProvisionLooksUp(s, j)
  <2>1. PICK x \in Runs : run' = [run EXCEPT ![j][s] = x]
    BY <1>5, LooksUpRun
  <2> QED BY <1>1, <1>2, <1>5, <2>1 DEF ProvisionLooksUp, OnlyRun, DomainsTypeOK
<1>6. CASE ProvisionStores(s, j)
  <2>1. PICK x \in Runs : run' = [run EXCEPT ![j][s] = x]
    BY <1>6, GotoRun DEF ProvisionStores
  <2>2. cert' \in [Ids -> {"none", "fresh", "expiring"}]
    BY <1>6 DEF ProvisionStores, DomainsTypeOK
  <2> QED BY <1>1, <1>2, <1>6, <2>1, <2>2 DEF ProvisionStores, DomainsTypeOK
<1>7. CASE ProvisionFails(s, j)
  <2>1. PICK x \in Runs : run' = [run EXCEPT ![j][s] = x]
    BY <1>7, GotoRun DEF ProvisionFails
  <2> QED BY <1>1, <1>2, <1>7, <2>1 DEF ProvisionFails, DomainsTypeOK
<1>8. CASE Activate(s)
  <2>1. PICK x \in Runs : run' = [run EXCEPT ![Validate][s] = x]
    BY <1>0, <1>8, GotoRun DEF Activate
  <2>2. status' \in [Ids -> Stored \cup {"unused", "deleted"}]
    BY <1>8 DEF Activate, UpdateStatus, Stored, DomainsTypeOK
  <2> QED BY <1>0, <1>1, <1>2, <1>8, <2>1, <2>2 DEF Activate, DomainsTypeOK
<1>9. CASE MarkFailed(s, j)
  <2>1. PICK x \in Runs : run' = [run EXCEPT ![j][s] = x]
    BY <1>9, GotoRun DEF MarkFailed
  <2>2. status' \in [Ids -> Stored \cup {"unused", "deleted"}]
    BY <1>9 DEF MarkFailed, UpdateStatus, Stored, Waiting, DomainsTypeOK
  <2> QED BY <1>1, <1>2, <1>9, <2>1, <2>2 DEF MarkFailed, DomainsTypeOK
<1>10. CASE EndRun(s, j)
  <2>1. LoopTypeOK'
    BY <1>0, <1>10, LoopLeave DEF EndRun, DomainsTypeOK
  <2> QED BY <1>1, <1>10, <2>1, NoRunIsRun DEF EndRun, DomainsTypeOK
<1> QED BY <1>3, <1>4, <1>5, <1>6, <1>7, <1>8, <1>9, <1>10 DEF Work

LEMMA DomainsTypeStep == DomainsTypeOK /\ [DomainsNext]_domainVars => DomainsTypeOK'
<1> SUFFICES ASSUME DomainsTypeOK, [DomainsNext]_domainVars PROVE DomainsTypeOK'
  OBVIOUS
<1> USE DEF DomainsTypeOK
<1>0. JobNames \subseteq Jobs
  BY JobsAssumption DEF JobNames
<1>1. ASSUME UNCHANGED loopVars PROVE LoopTypeOK'
  BY <1>1 DEF loopVars, LoopTypeOK
<1>2. ASSUME NEW d \in Ids, RequestDomain(d) \/ CertAges(d) PROVE DomainsTypeOK'
  <2>1. created' \in Seq(Ids)
    <3>1. created \in Seq(Ids) => Append(created, d) \in Seq(Ids)
      <4> HIDE DEF DomainsTypeOK
      <4> QED OBVIOUS
    <3>2. created' = created \/ created' = Append(created, d)
      BY <1>2 DEF RequestDomain, CertAges
    <3>3. created \in Seq(Ids)
      OBVIOUS
    <3> HIDE DEF DomainsTypeOK
    <3> QED BY <3>1, <3>2, <3>3
  <2> QED BY <1>1, <1>2, <2>1 DEF RequestDomain, CertAges, Stored, Waiting
<1>3. ASSUME NEW r \in DomainRequests, NEW d \in Ids, DeleteDomain(r, d) PROVE DomainsTypeOK'
  BY <1>1, <1>3 DEF DeleteDomain
<1>4. ASSUME NEW r \in DomainRequests, RefreshLists(r) PROVE DomainsTypeOK'
  BY <1>1, <1>4, ActiveHostnamesAreMap, UnroutedIsMap, FailsType DEF RefreshLists, NoRequest
<1>5. ASSUME NEW r \in DomainRequests, NEW a \in Apis, RefreshStores(r, a) PROVE DomainsTypeOK'
  BY <1>1, <1>5, UnroutedIsMap DEF RefreshStores, NoRequest
<1>6. ASSUME NEW a \in Apis, StartApi(a) PROVE DomainsTypeOK'
  BY <1>1, <1>6, ActiveHostnamesAreMap DEF StartApi
<1>7. ASSUME NEW j \in JobNames, Expire(j) PROVE DomainsTypeOK'
  <2>1. LoopTypeOK'
    BY <1>0, <1>7, LoopExpires DEF Expire
  <2>2. failures' \in 0..MaxFailures
    BY <1>7, FailsType DEF Expire
  <2> QED BY <1>7, <2>1, <2>2 DEF Expire
<1>8. ASSUME NEW s \in Schedulers, CrashScheduler(s) PROVE DomainsTypeOK'
  <2>1. LoopTypeOK' /\ failures' \in 0..MaxFailures
    BY <1>8, LoopCrash, FailsType DEF CrashScheduler
  <2>2. run' \in [{Validate, Renew} -> [Schedulers -> Runs]]
    BY <1>8, NoRunIsRun DEF CrashScheduler
  <2> QED BY <1>8, <2>1, <2>2 DEF CrashScheduler
<1>9. ASSUME NEW s \in Schedulers, NEW j \in JobNames, StartRun(s, j) PROVE DomainsTypeOK'
  <2>1. LoopTypeOK'
    BY <1>0, <1>9, LoopEnter DEF StartRun
  <2> QED BY <1>9, <2>1 DEF StartRun
<1>10. CASE UNCHANGED domainVars
  BY <1>1, <1>10 DEF domainVars
<1> QED
  BY <1>2, <1>3, <1>4, <1>5, <1>6, <1>7, <1>8, <1>9, <1>10, WorkType DEF DomainsNext, JobNames

\* Only well-formed rows, runs and maps are reachable.
THEOREM DomainsTypeCorrect == DomainsSpec => []DomainsTypeOK
BY DomainsTypeInit, DomainsTypeStep, PTL DEF DomainsSpec
-----------------------------------------------------------------------------
(* Custom domains: owners and certificates                                   *)

Owned(d) == Controls[Host(d)] = User(d)

\* Validated and active rows belong to whoever controls the host, an active row
\* has a certificate, and a host has at most one row.
TableOK ==
    /\ \A d \in Ids : status[d] \in {"validated", "active"} => Owned(d)
    /\ \A d \in Ids : status[d] = "active" => cert[d] # "none"
    /\ \A d, e \in Ids : Live(d) /\ Live(e) /\ Host(d) = Host(e) => d = e

\* What a run of either job has in hand, however stale.
RunOK(x) ==
    /\ \A dom \in x.rows : /\ status[dom.id] # "unused"
                           /\ dom.was \in {"validated", "active"} => Owned(dom.id)
    /\ x.at \in {"store", "activate"} => x.cur \in Ids /\ Owned(x.cur) /\ status[x.cur] # "unused"
    /\ x.at = "store" => x.got \in Ids /\ (Live(x.cur) => x.got = x.cur)
    /\ x.at = "activate" /\ Live(x.cur) => cert[x.cur] # "none"

RunsOK == \A j \in JobNames, s \in Schedulers :
    RunOK(run[j][s]) /\ (s \notin inside[j] => run[j][s] = NoRun)

OwnersOnly(map) == \A h \in Hosts : map[h] # NoOne => map[h] = Controls[h]

MapsOK == /\ \A a \in Apis : OwnersOnly(routes[a])
          /\ \A r \in DomainRequests : OwnersOnly(request[r].map)

DomainsInv == DomainsTypeOK /\ TableOK /\ RunsOK /\ MapsOK

\* How rows and certificates may change under a run: an id that was used stays
\* used, a deleted row stays deleted, and a certificate goes only with its row.
RowsAdvance ==
    \A d \in Ids : /\ status[d] # "unused" => status'[d] # "unused"
                   /\ status[d] = "deleted" => status'[d] = "deleted"
                   /\ cert[d] # "none" => cert'[d] # "none" \/ status'[d] = "deleted"

LEMMA RunKept ==
  ASSUME DomainsTypeOK, RowsAdvance, NEW x \in Runs, RunOK(x)
  PROVE  RunOK(x)'
<1>1. \A dom \in x.rows : dom.id \in Ids
  BY DEF Runs, Listed
<1>2. \A d \in Ids : status[d] # "unused" /\ ~Live(d) => status[d] = "deleted"
  BY DEF DomainsTypeOK, Live
<1>3. \A d \in Ids : status[d] = "deleted" => ~(status'[d] \in Stored)
  BY DEF RowsAdvance, Stored, Waiting
<1>4. ASSUME NEW d \in Ids, status[d] # "unused", Live(d)' PROVE Live(d)
  BY <1>2, <1>3, <1>4 DEF Live
<1>5. \A dom \in x.rows : status'[dom.id] # "unused"
                         /\ (dom.was \in {"validated", "active"} => Owned(dom.id))
  BY <1>1 DEF RunOK, RowsAdvance
<1>6. x.at \in {"store", "activate"} => x.cur \in Ids /\ Owned(x.cur) /\ status'[x.cur] # "unused"
  BY DEF RunOK, RowsAdvance
<1>7. x.at = "store" => x.got \in Ids /\ (Live(x.cur)' => x.got = x.cur)
  BY <1>4, <1>6 DEF RunOK
<1>8. x.at = "activate" /\ Live(x.cur)' => cert'[x.cur] # "none"
  BY <1>4 DEF RunOK, RowsAdvance, Live, Stored, Waiting
<1> QED BY <1>5, <1>6, <1>7, <1>8 DEF RunOK, Owned

\* The runs survive when none of them moves, and when one of them moves to a
\* record that is in order.
LEMMA RunsKept ==
  ASSUME DomainsTypeOK, RunsOK, RowsAdvance, UNCHANGED run,
         \A j \in JobNames : inside[j] \subseteq inside'[j]
  PROVE  RunsOK'
<1>1. \A j \in JobNames, s \in Schedulers : run[j][s] \in Runs
  BY DEF DomainsTypeOK, JobNames
<1>2. ASSUME NEW j \in JobNames, NEW s \in Schedulers PROVE RunOK(run[j][s])'
  BY <1>1, RunKept DEF RunsOK
<1> QED BY <1>2 DEF RunsOK

LEMMA RunsMove ==
  ASSUME DomainsTypeOK, RunsOK, RowsAdvance, NEW j \in JobNames, NEW s \in Schedulers,
         s \in inside[j], UNCHANGED inside,
         NEW x \in Runs, run' = [run EXCEPT ![j][s] = x], RunOK(x)'
  PROVE  RunsOK'
<1>1. \A k \in JobNames, t \in Schedulers : run[k][t] \in Runs
  BY DEF DomainsTypeOK, JobNames
<1>2. run'[j][s] = x /\ \A k \in JobNames, t \in Schedulers : k # j \/ t # s => run'[k][t] = run[k][t]
  BY RunUpdate
<1>3. ASSUME NEW k \in JobNames, NEW t \in Schedulers, k # j \/ t # s
      PROVE  RunOK(run[k][t])'
  BY <1>1, <1>2, <1>3, RunKept DEF RunsOK
<1>4. ASSUME NEW k \in JobNames, NEW t \in Schedulers
      PROVE  RunOK(run[k][t])' /\ (t \notin inside'[k] => run'[k][t] = NoRun)
  BY <1>2, <1>3 DEF RunsOK
<1> QED BY <1>4 DEF RunsOK

\* An UPDATE of the status keeps the rows and which of them are live.
LEMMA UpdateAdvances ==
  ASSUME DomainsTypeOK, NEW d \in Ids, NEW st \in Stored,
         status' = status \/ status' = UpdateStatus(d, st), UNCHANGED cert
  PROVE  /\ RowsAdvance
         /\ \A e \in Ids : Live(e)' <=> Live(e)
BY UpdateStatusIs DEF RowsAdvance, Live, Stored, Waiting, DomainsTypeOK

LEMMA TableUpdate ==
  ASSUME DomainsTypeOK, TableOK, NEW d \in Ids, NEW st \in Stored,
         status' = status \/ status' = UpdateStatus(d, st), UNCHANGED cert,
         st \in {"validated", "active"} => Owned(d),
         st = "active" /\ Live(d) => cert[d] # "none"
  PROVE  TableOK'
<1>1. \A e \in Ids : Live(e)' <=> Live(e)
  BY UpdateAdvances
<1>2. \A e \in Ids : status'[e] = status[e] \/ (e = d /\ Live(d) /\ status'[e] = st)
  BY UpdateStatusIs
<1>3. \A e \in Ids : status'[e] \in {"validated", "active"} => Owned(e)
  BY <1>2 DEF TableOK
<1>4. \A e \in Ids : status'[e] = "active" => cert'[e] # "none"
  BY <1>2 DEF TableOK
<1>5. \A e, f \in Ids : Live(e)' /\ Live(f)' /\ Host(e) = Host(f) => e = f
  BY <1>1 DEF TableOK
<1> QED BY <1>3, <1>4, <1>5 DEF TableOK, Owned

LEMMA ActiveHostnamesOwners ==
  ASSUME DomainsTypeOK, TableOK
  PROVE  OwnersOnly(ListActiveHostnames)
<1> SUFFICES ASSUME NEW h \in Hosts, ListActiveHostnames[h] # NoOne
             PROVE  ListActiveHostnames[h] = Controls[h]
  BY DEF OwnersOnly
<1>1. \E d \in GetByHostname(h) : status[d] = "active"
  BY DEF ListActiveHostnames
<1>2. PICK d \in GetByHostname(h) :
        /\ status[d] = "active"
        /\ d = CHOOSE e \in GetByHostname(h) : status[e] = "active"
  BY <1>1
<1>3. ListActiveHostnames[h] = User(d)
  BY <1>1, <1>2 DEF ListActiveHostnames
<1>4. d \in Ids /\ Host(d) = h
  BY DEF GetByHostname
<1> QED BY <1>2, <1>3, <1>4 DEF TableOK, Owned

LEMMA UnroutedOwners == OwnersOnly(Unrouted)
BY DEF OwnersOnly, Unrouted

LEMMA NoRunOK == RunOK(NoRun)
BY DEF RunOK, NoRun

LEMMA DomainsInvInit == DomainsInit => DomainsInv
<1> SUFFICES ASSUME DomainsInit PROVE DomainsInv
  OBVIOUS
<1>1. DomainsTypeOK
  BY DomainsTypeInit
<1>2. TableOK
  BY DEF DomainsInit, TableOK, Live, Stored, Waiting
<1>3. RunsOK
  BY NoRunOK DEF DomainsInit, RunsOK, JobNames
<1>4. MapsOK
  BY UnroutedOwners DEF DomainsInit, MapsOK, NoRequest
<1> QED BY <1>1, <1>2, <1>3, <1>4 DEF DomainsInv

\* The steps of a run.
LEMMA WorkInv ==
  ASSUME DomainsInv, NEW j \in JobNames, NEW s \in Schedulers, Work(s, j)
  PROVE  TableOK' /\ RunsOK'
<1> USE DEF DomainsInv
<1>0. /\ s \in inside[j] /\ Validate \in JobNames
      /\ run[j][s] \in Runs /\ RunOK(run[j][s])
  BY DEF Work, At, ListRows, ValidateDNS, Activate, ProvisionLooksUp, ProvisionStores,
         ProvisionFails, MarkFailed, EndRun, JobNames, RunsOK, DomainsTypeOK
<1>1. \A dom \in run[j][s].rows : dom.id \in Ids
  BY <1>0 DEF Runs, Listed
<1>2. ASSUME UNCHANGED <<status, cert>> PROVE TableOK' /\ RowsAdvance
  BY <1>2 DEF TableOK, RowsAdvance, Live, Owned
<1>3. CASE ListRows(s, j)
  <2>1. PICK x \in Runs :
            /\ run' = [run EXCEPT ![j][s] = x]
            /\ x.at = "next"
            /\ \A dom \in x.rows : dom.id \in Ids /\ dom.was = status[dom.id] /\ Live(dom.id)
    BY <1>3, ListRowsRun
  <2>2. UNCHANGED <<status, cert, inside>>
    BY <1>3 DEF ListRows, loopVars
  <2>3. RunOK(x)'
    BY <2>1, <2>2 DEF RunOK, TableOK, Live, Stored, Waiting, Owned
  <2> QED BY <1>0, <1>2, <2>1, <2>2, <2>3, RunsMove
<1>4. CASE j = Validate /\ ValidateDNS(s)
  <2>1. PICK dom \in run[Validate][s].rows, x \in Runs :
            /\ dom.id \in Ids /\ dom.was \in {"pending", "failed"}
            /\ run' = [run EXCEPT ![Validate][s] = x]
            /\ x.at = "next" /\ x.rows = run[Validate][s].rows \ {dom}
            /\ status' \in {status, UpdateStatus(dom.id, "failed"),
                            UpdateStatus(dom.id, IF Controls[Host(dom.id)] = User(dom.id)
                                                 THEN "validated" ELSE "failed")}
    BY <1>4, ValidateRun
  <2>2. PICK st \in {"validated", "failed"} :
            /\ status' = status \/ status' = UpdateStatus(dom.id, st)
            /\ st = "validated" => Owned(dom.id)
    BY <2>1 DEF Owned
  <2>3. UNCHANGED <<cert, inside>> /\ st \in Stored
    BY <1>4 DEF ValidateDNS, loopVars, Stored, Waiting
  <2>4. TableOK' /\ RowsAdvance
    BY <2>1, <2>2, <2>3, TableUpdate, UpdateAdvances
  <2>5. RunOK(run[j][s])
    BY <1>0
  <2>6. \A q \in x.rows : q.id \in Ids /\ status[q.id] # "unused"
                         /\ (q.was \in {"validated", "active"} => Owned(q.id))
    BY <1>1, <1>4, <2>1, <2>5 DEF RunOK
  <2>7. RunOK(x)'
    BY <2>1, <2>4, <2>6 DEF RunOK, RowsAdvance, Owned
  <2> QED BY <1>0, <1>4, <2>1, <2>3, <2>4, <2>7, RunsMove
<1>5. CASE ProvisionLooksUp(s, j)
  <2>1. PICK dom \in run[j][s].rows, x \in Runs :
            /\ dom.id \in Ids /\ dom.was \in {"validated", "active"}
            /\ run' = [run EXCEPT ![j][s] = x]
            /\ x.cur = dom.id /\ x.rows = run[j][s].rows \ {dom}
            /\ \/ x.at = "store" /\ x.got \in Ids /\ Live(x.got) /\ Host(x.got) = Host(dom.id)
               \/ x.at = "fail" /\ ~Live(dom.id)
    BY <1>5, LooksUpRun
  <2>2. UNCHANGED <<status, cert, inside>>
    BY <1>5 DEF ProvisionLooksUp, OnlyRun, loopVars
  <2>3. Owned(dom.id) /\ status[dom.id] # "unused"
    BY <1>0, <2>1 DEF RunOK
  <2>4. x.at = "store" /\ Live(dom.id) => x.got = dom.id
    BY <2>1 DEF TableOK
  <2>5. \A q \in x.rows : status[q.id] # "unused"
                         /\ (q.was \in {"validated", "active"} => Owned(q.id))
    BY <1>0, <2>1 DEF RunOK
  <2>6. RunOK(x)
    BY <2>1, <2>3, <2>4, <2>5 DEF RunOK
  <2>7. RunOK(x)'
    BY <1>2, <2>2, <2>6, RunKept
  <2> QED BY <1>0, <1>2, <2>1, <2>2, <2>7, RunsMove
<1>6. CASE ProvisionStores(s, j)
  <2>1. PICK x \in Runs :
            /\ run' = [run EXCEPT ![j][s] = x]
            /\ x.at = IF j = Validate THEN "activate" ELSE "next"
            /\ x.rows = run[j][s].rows /\ x.cur = run[j][s].cur /\ x.got = run[j][s].got
    BY <1>6, GotoRun DEF ProvisionStores
  <2> DEFINE got == run[j][s].got
  <2>2. got \in Ids /\ run[j][s].cur \in Ids /\ (Live(run[j][s].cur) => got = run[j][s].cur)
    BY <1>0, <1>6 DEF ProvisionStores, At, RunOK
  <2>3. UNCHANGED <<status, inside>> /\ cert' = [cert EXCEPT ![got] = "fresh"]
    BY <1>6 DEF ProvisionStores, loopVars
  <2>4. cert'[got] = "fresh" /\ \A d \in Ids : d # got => cert'[d] = cert[d]
    BY <2>2, <2>3 DEF DomainsTypeOK
  <2>5. TableOK' /\ RowsAdvance
    BY <2>3, <2>4 DEF TableOK, RowsAdvance, Live, Owned
  <2>6. RunOK(x)'
    BY <1>0, <1>6, <2>1, <2>2, <2>3, <2>4 DEF RunOK, ProvisionStores, At, Live, Owned
  <2> QED BY <1>0, <2>1, <2>3, <2>5, <2>6, RunsMove
<1>7. CASE ProvisionFails(s, j)
  <2>1. PICK x \in Runs :
            /\ run' = [run EXCEPT ![j][s] = x]
            /\ x.at = "fail" /\ x.rows = run[j][s].rows
    BY <1>7, GotoRun DEF ProvisionFails
  <2>2. UNCHANGED <<status, cert, inside>>
    BY <1>7 DEF ProvisionFails, loopVars
  <2>3. RunOK(x)'
    BY <1>0, <2>1, <2>2 DEF RunOK, Owned
  <2> QED BY <1>0, <1>2, <2>1, <2>2, <2>3, RunsMove
<1>8. CASE j = Validate /\ Activate(s)
  <2>1. PICK x \in Runs :
            /\ run' = [run EXCEPT ![j][s] = x]
            /\ x.at = "next" /\ x.rows = run[j][s].rows
    BY <1>8, GotoRun DEF Activate
  <2> DEFINE cur == run[j][s].cur
  <2>2. cur \in Ids /\ Owned(cur) /\ (Live(cur) => cert[cur] # "none")
    BY <1>0, <1>8 DEF Activate, At, RunOK
  <2>3. /\ UNCHANGED <<cert, inside>> /\ "active" \in Stored
        /\ status' = status \/ status' = UpdateStatus(cur, "active")
    BY <1>8 DEF Activate, loopVars, Stored
  <2> HIDE DEF cur
  <2>4. TableOK' /\ RowsAdvance
    BY <2>2, <2>3, TableUpdate, UpdateAdvances
  <2>5. RunOK(x)'
    BY <1>0, <1>1, <2>1, <2>4 DEF RunOK, RowsAdvance, Owned
  <2> QED BY <1>0, <2>1, <2>3, <2>4, <2>5, RunsMove
<1>9. CASE MarkFailed(s, j)
  <2>1. PICK x \in Runs :
            /\ run' = [run EXCEPT ![j][s] = x]
            /\ x.at = "next" /\ x.rows = run[j][s].rows
    BY <1>9, GotoRun DEF MarkFailed
  <2> DEFINE cur == run[j][s].cur
  <2>2. /\ UNCHANGED <<cert, inside>> /\ "failed" \in Stored
        /\ status' = status \/ status' = UpdateStatus(cur, "failed")
    BY <1>9 DEF MarkFailed, loopVars, Stored, Waiting
  <2>3. cur \in Ids \/ status' = status
    BY <1>0, <2>2 DEF UpdateStatus, DomainsTypeOK, Runs, Live
  <2> HIDE DEF cur
  <2>4. TableOK' /\ RowsAdvance
    BY <1>2, <2>2, <2>3, TableUpdate, UpdateAdvances
  <2>5. RunOK(x)'
    BY <1>0, <1>1, <2>1, <2>4 DEF RunOK, RowsAdvance, Owned
  <2> QED BY <1>0, <2>1, <2>2, <2>4, <2>5, RunsMove
<1>10. CASE EndRun(s, j)
  <2>1. UNCHANGED <<status, cert>> /\ run' = [run EXCEPT ![j][s] = NoRun]
    BY <1>10 DEF EndRun
  <2>2. \A k \in JobNames : inside[k] \ {s} \subseteq inside'[k] /\ (k # j => inside'[k] = inside[k])
    BY <1>10, JobsAssumption DEF EndRun, LeaveJob, DomainsTypeOK, LoopTypeOK, JobNames
  <2>3. run'[j][s] = NoRun /\ \A k \in JobNames, t \in Schedulers : k # j \/ t # s => run'[k][t] = run[k][t]
    BY <2>1, RunUpdate
  <2>4. \A k \in JobNames, t \in Schedulers : run[k][t] \in Runs
    BY DEF DomainsTypeOK, JobNames
  <2>5. ASSUME NEW k \in JobNames, NEW t \in Schedulers
        PROVE  RunOK(run[k][t])' /\ (t \notin inside'[k] => run'[k][t] = NoRun)
    <3>0. RunOK(NoRun)'
      BY <1>2, <2>1, NoRunOK, NoRunIsRun, RunKept
    <3>1. CASE k = j /\ t = s
      BY <2>3, <3>0, <3>1
    <3>2. CASE k # j \/ t # s
      BY <1>2, <2>1, <2>2, <2>3, <2>4, <3>2, RunKept DEF RunsOK
    <3> QED BY <3>1, <3>2
  <2> QED BY <1>2, <2>1, <2>5 DEF RunsOK
<1> QED BY <1>3, <1>4, <1>5, <1>6, <1>7, <1>8, <1>9, <1>10 DEF Work

\* The steps of a run leave the maps alone.
LEMMA DomainsInvStep == DomainsInv /\ [DomainsNext]_domainVars => DomainsInv'
<1> SUFFICES ASSUME DomainsInv, [DomainsNext]_domainVars PROVE DomainsInv'
  OBVIOUS
<1> USE DEF DomainsInv
<1>0. DomainsTypeOK'
  BY DomainsTypeStep
<1>1. ASSUME UNCHANGED <<status, cert>> PROVE TableOK' /\ RowsAdvance
  BY <1>1 DEF TableOK, RowsAdvance, Live, Owned
<1>2. ASSUME UNCHANGED <<routes, request>> PROVE MapsOK'
  BY <1>2 DEF MapsOK, OwnersOnly
<1>3. ASSUME UNCHANGED <<status, cert, run, inside>>, MapsOK' PROVE DomainsInv'
  BY <1>0, <1>1, <1>3, RunsKept
<1>4. ASSUME NEW d \in Ids, RequestDomain(d) PROVE DomainsInv'
  <2>1. /\ status[d] = "unused" /\ status' = [status EXCEPT ![d] = "pending"]
        /\ UNCHANGED <<cert, run, inside, routes, request>>
        /\ \A e \in Ids : Live(e) => Host(e) # Host(d)
    BY <1>4 DEF RequestDomain, loopVars, GetByHostname
  <2>2. status'[d] = "pending" /\ \A e \in Ids : e # d => status'[e] = status[e]
    BY <2>1 DEF DomainsTypeOK
  <2>3. TableOK'
    BY <2>1, <2>2 DEF TableOK, Live, Owned
  <2>4. RowsAdvance
    BY <2>1, <2>2 DEF RowsAdvance
  <2> QED BY <1>0, <1>2, <2>1, <2>3, <2>4, RunsKept
<1>5. ASSUME NEW d \in Ids, CertAges(d) PROVE DomainsInv'
  <2>1. UNCHANGED <<status, run, inside, routes, request>> /\ cert' = [cert EXCEPT ![d] = "expiring"]
    BY <1>5 DEF CertAges, loopVars
  <2>2. \A e \in Ids : cert[e] # "none" => cert'[e] # "none"
    BY <2>1 DEF DomainsTypeOK
  <2>3. TableOK' /\ RowsAdvance
    BY <2>1, <2>2 DEF TableOK, RowsAdvance, Live, Owned
  <2> QED BY <1>0, <1>2, <2>1, <2>3, RunsKept
<1>6. ASSUME NEW r \in DomainRequests, NEW d \in Ids, DeleteDomain(r, d) PROVE DomainsInv'
  <2>1. /\ Live(d) /\ UNCHANGED <<run, inside, routes>>
        /\ status' = [status EXCEPT ![d] = "deleted"] /\ cert' = [cert EXCEPT ![d] = "none"]
        /\ request' = [request EXCEPT ![r].at = "list"]
    BY <1>6 DEF DeleteDomain, loopVars
  <2>2. \A e \in Ids : /\ e = d => status'[e] = "deleted"
                       /\ e # d => status'[e] = status[e] /\ cert'[e] = cert[e]
    BY <2>1 DEF DomainsTypeOK
  <2>3. TableOK'
    BY <2>2 DEF TableOK, Live, Owned, Stored, Waiting
  <2>4. RowsAdvance
    BY <2>1, <2>2 DEF RowsAdvance, Live, Stored, Waiting
  <2>5. MapsOK'
    BY <2>1 DEF MapsOK, OwnersOnly, DomainsTypeOK
  <2> QED BY <1>0, <2>1, <2>3, <2>4, <2>5, RunsKept
<1>7. ASSUME NEW r \in DomainRequests, RefreshLists(r) PROVE DomainsInv'
  <2>1. UNCHANGED <<status, cert, run, inside, routes>>
    BY <1>7 DEF RefreshLists, loopVars
  <2>2. PICK map : map \in {ListActiveHostnames, Unrouted} /\ request'[r].map = map
    BY <1>7 DEF RefreshLists, NoRequest, DomainsTypeOK
  <2>3. \A q \in DomainRequests : q # r => request'[q] = request[q]
    BY <1>7 DEF RefreshLists, DomainsTypeOK
  <2>4. OwnersOnly(map)
    BY <2>2, ActiveHostnamesOwners, UnroutedOwners
  <2>5. MapsOK'
    BY <2>1, <2>2, <2>3, <2>4 DEF MapsOK, OwnersOnly
  <2> QED BY <1>3, <2>1, <2>5
<1>8. ASSUME NEW r \in DomainRequests, NEW a \in Apis, RefreshStores(r, a) PROVE DomainsInv'
  <2>1. /\ UNCHANGED <<status, cert, run, inside>>
        /\ routes' = [routes EXCEPT ![a] = request[r].map]
        /\ request' = [request EXCEPT ![r] = NoRequest]
    BY <1>8 DEF RefreshStores, loopVars
  <2>2. OwnersOnly(request[r].map) /\ OwnersOnly(NoRequest.map)
    BY UnroutedOwners DEF MapsOK, NoRequest
  <2>3. MapsOK'
    BY <2>1, <2>2 DEF MapsOK, OwnersOnly, DomainsTypeOK
  <2> QED BY <1>3, <2>1, <2>3
<1>9. ASSUME NEW a \in Apis, StartApi(a) PROVE DomainsInv'
  <2>1. UNCHANGED <<status, cert, run, inside, request>> /\ routes' = [routes EXCEPT ![a] = ListActiveHostnames]
    BY <1>9 DEF StartApi, loopVars
  <2>2. OwnersOnly(ListActiveHostnames)
    BY ActiveHostnamesOwners
  <2>3. MapsOK'
    BY <2>1, <2>2 DEF MapsOK, OwnersOnly, DomainsTypeOK
  <2> QED BY <1>3, <2>1, <2>3
<1>10. ASSUME NEW j \in JobNames, Expire(j) PROVE DomainsInv'
  BY <1>2, <1>3, <1>10 DEF Expire, MutexExpires
<1>11. ASSUME NEW s \in Schedulers, CrashScheduler(s) PROVE DomainsInv'
  <2>1. /\ UNCHANGED <<status, cert, routes, request>>
        /\ inside' = [j \in Jobs |-> inside[j] \ {s}]
        /\ run' = [j \in {Validate, Renew} |-> [run[j] EXCEPT ![s] = NoRun]]
    BY <1>11 DEF CrashScheduler, CrashJobs
  <2>2. \A k \in JobNames, t \in Schedulers : run'[k][t] = IF t = s THEN NoRun ELSE run[k][t]
    BY <2>1 DEF JobNames, DomainsTypeOK
  <2>3. \A k \in JobNames, t \in Schedulers : t \notin inside'[k] => t = s \/ t \notin inside[k]
    BY <2>1, JobsAssumption DEF JobNames
  <2>4. RunOK(NoRun)'
    BY <1>1, <2>1, NoRunOK, NoRunIsRun, RunKept
  <2>5. \A k \in JobNames, t \in Schedulers : run[k][t] \in Runs
    BY DEF DomainsTypeOK, JobNames
  <2>6. ASSUME NEW k \in JobNames, NEW t \in Schedulers
        PROVE  RunOK(run[k][t])' /\ (t \notin inside'[k] => run'[k][t] = NoRun)
    <3>1. CASE t = s
      BY <2>2, <2>4, <3>1
    <3>2. CASE t # s
      <4>1. run'[k][t] = run[k][t] /\ (t \notin inside'[k] => run[k][t] = NoRun)
        BY <2>2, <2>3, <3>2 DEF RunsOK
      <4>2. PICK x \in Runs : x = run[k][t] /\ RunOK(x)
        BY <2>5 DEF RunsOK
      <4>3. RunOK(x)'
        BY <1>1, <2>1, <4>2, RunKept
      <4> QED BY <4>1, <4>2, <4>3
    <3> QED BY <3>1, <3>2
  <2> QED BY <1>0, <1>1, <1>2, <2>1, <2>6 DEF RunsOK
<1>12. ASSUME NEW s \in Schedulers, NEW j \in JobNames, StartRun(s, j) PROVE DomainsInv'
  <2>1. UNCHANGED <<status, cert, run, routes, request>>
    BY <1>12 DEF StartRun
  <2>2. \A k \in JobNames : inside[k] \subseteq inside'[k]
    BY <1>12, JobsAssumption DEF StartRun, EnterJob, DomainsTypeOK, LoopTypeOK, JobNames
  <2> QED BY <1>0, <1>1, <1>2, <2>1, <2>2, RunsKept
<1>13. ASSUME NEW s \in Schedulers, NEW j \in JobNames, Work(s, j) PROVE DomainsInv'
  <2>1. UNCHANGED <<routes, request>>
    BY <1>13 DEF Work, ListRows, ValidateDNS, Activate, ProvisionLooksUp, ProvisionStores,
                 ProvisionFails, MarkFailed, EndRun, OnlyRun
  <2> QED BY <1>0, <1>2, <1>13, <2>1, WorkInv
<1>14. CASE UNCHANGED domainVars
  BY <1>2, <1>3, <1>14 DEF domainVars, loopVars
<1> QED
  BY <1>4, <1>5, <1>6, <1>7, <1>8, <1>9, <1>10, <1>11, <1>12, <1>13, <1>14 DEF DomainsNext, JobNames

LEMMA DomainsInvariance == DomainsSpec => []DomainsInv
BY DomainsInvInit, DomainsInvStep, PTL DEF DomainsSpec

\* An active row has its certificate, although Provision looks the row up by host
\* name and rows come and go between its statements.
THEOREM ActiveHasCertAlways == DomainsSpec => []ActiveHasCert
<1>1. DomainsInv => ActiveHasCert
  BY DEF DomainsInv, TableOK, ActiveHasCert
<1> QED BY DomainsInvariance, <1>1, PTL

\* No API process routes a host to someone who does not control it, however stale
\* the map it stores last.
THEOREM RoutesOnlyOwnerAlways == DomainsSpec => []RoutesOnlyOwner
<1>1. DomainsInv => RoutesOnlyOwner
  BY DEF DomainsInv, MapsOK, OwnersOnly, RoutesOnlyOwner
<1> QED BY DomainsInvariance, <1>1, PTL

-----------------------------------------------------------------------------
(* Custom domains: the life cycle while the mutex covers the validation job  *)

\* A run that is covered: what it listed is still so, or deleted.
Kept(x) ==
    /\ \A dom \in x.rows : dom.was \in Waiting /\ status[dom.id] \in {dom.was, "deleted"}
    /\ x.at \in {"store", "activate", "fail"} =>
          /\ x.cur \in Ids /\ status[x.cur] \in {"validated", "deleted"}
          /\ \A dom \in x.rows : dom.id = x.cur => status[x.cur] = "deleted"

LockOK == Validate \notin lapsed =>
    \A s \in inside[Validate] : mutex[Validate] = s /\ Kept(run[Validate][s])

\* Nothing that happens outside the run moves a row it has in hand, except that
\* the user may delete it.
Stays(d) == status'[d] = status[d] \/ status'[d] = "deleted" \/ status[d] = "unused"

LEMMA HeldKept ==
  ASSUME DomainsTypeOK, NEW x \in Runs, Kept(x), \A d \in Ids : Stays(d)
  PROVE  Kept(x)'
<1>1. \A dom \in x.rows : dom.id \in Ids
  BY DEF Runs, Listed
<1> QED BY <1>1 DEF Kept, Stays, Stored, Waiting

LEMMA NoRunHeld == Kept(NoRun)
BY DEF Kept, NoRun

LEMMA LockInit == DomainsInit => LockOK
BY JobsAssumption DEF DomainsInit, LoopInit, LockOK

\* A step outside the runs of the validation job.
LEMMA LockKept ==
  ASSUME DomainsTypeOK, LockOK, \A d \in Ids : Stays(d), lapsed \subseteq lapsed',
         mutex'[Validate] = mutex[Validate], inside'[Validate] \subseteq inside[Validate],
         \A s \in inside'[Validate] : run'[Validate][s] = run[Validate][s]
  PROVE  LockOK'
<1>1. \A s \in Schedulers : run[Validate][s] \in Runs
  BY DEF DomainsTypeOK
<1>2. inside[Validate] \subseteq Schedulers
  BY JobsAssumption DEF DomainsTypeOK, LoopTypeOK
<1>3. ASSUME NEW s \in inside'[Validate], Validate \notin lapsed' PROVE Kept(run[Validate][s])'
  <2>1. PICK x \in Runs : x = run[Validate][s] /\ Kept(x)
    BY <1>1, <1>2, <1>3 DEF LockOK
  <2>2. Kept(x)'
    BY <2>1, HeldKept
  <2> QED BY <1>2, <2>1, <2>2
<1> QED BY <1>3 DEF LockOK

\* A step of the one run that is covered.
LEMMA LockMove ==
  ASSUME DomainsTypeOK, LockOK, NEW s \in inside[Validate], UNCHANGED loopVars,
         NEW x, run' = [run EXCEPT ![Validate][s] = x],
         Validate \notin lapsed => Kept(x)'
  PROVE  LockOK'
<1>1. inside[Validate] \subseteq Schedulers
  BY JobsAssumption DEF DomainsTypeOK, LoopTypeOK
<1>2. run'[Validate][s] = x
  BY <1>1, RunUpdate DEF JobNames
<1> QED BY <1>2 DEF LockOK, loopVars

\* A covered run moves rows only along the life cycle, and holds what it has
\* left.
LEMMA ValidateLock ==
  ASSUME DomainsInv, LockOK, NEW s \in Schedulers, Work(s, Validate)
  PROVE  LockOK' /\ (Validate \notin lapsed => \A d \in Ids : Move(d))
<1> USE DEF DomainsInv
<1>0. /\ s \in inside[Validate] /\ Validate \in JobNames
      /\ run[Validate][s] \in Runs
      /\ Validate \notin lapsed => Kept(run[Validate][s])
  BY DEF Work, At, ListRows, ValidateDNS, Activate, ProvisionLooksUp, ProvisionStores,
         ProvisionFails, MarkFailed, EndRun, JobNames, DomainsTypeOK, LockOK
<1>1. \A dom \in run[Validate][s].rows : dom.id \in Ids
  BY <1>0 DEF Runs, Listed
<1>2. ASSUME UNCHANGED status
      PROVE  (\A d \in Ids : Move(d)) /\ (\A d \in Ids : Stays(d))
  BY <1>2 DEF Move, Stays
<1>3. CASE ListRows(s, Validate)
  <2>1. PICK x \in Runs :
            /\ run' = [run EXCEPT ![Validate][s] = x]
            /\ x.at = "next"
            /\ \A dom \in x.rows : dom.was = status[dom.id] /\ dom.was \in Waiting
    BY <1>0, <1>3, ListRowsRun
  <2>2. UNCHANGED <<status, loopVars>>
    BY <1>3 DEF ListRows
  <2>3. Kept(x)'
    BY <2>1, <2>2 DEF Kept
  <2> QED BY <1>0, <1>2, <2>1, <2>2, <2>3, LockMove
<1>4. CASE ValidateDNS(s)
  <2>1. PICK dom \in run[Validate][s].rows, x \in Runs :
            /\ dom.id \in Ids /\ dom.was \in {"pending", "failed"}
            /\ run' = [run EXCEPT ![Validate][s] = x]
            /\ x.at = "next" /\ x.rows = run[Validate][s].rows \ {dom}
            /\ status' \in {status, UpdateStatus(dom.id, "failed"),
                            UpdateStatus(dom.id, IF Controls[Host(dom.id)] = User(dom.id)
                                                 THEN "validated" ELSE "failed")}
    BY <1>4, ValidateRun
  <2>2. UNCHANGED loopVars
    BY <1>4 DEF ValidateDNS
  <2>3. PICK st \in {"validated", "failed"} : status' = status \/ status' = UpdateStatus(dom.id, st)
    BY <2>1
  <2>4. \A e \in Ids : status'[e] = status[e] \/ (e = dom.id /\ Live(e) /\ status'[e] = st)
    BY <2>1, <2>3, UpdateStatusIs DEF Stored, Waiting
  <2>5. ASSUME Validate \notin lapsed PROVE Kept(x)' /\ \A d \in Ids : Move(d)
    <3>1. /\ \A q \in run[Validate][s].rows : q \in Listed /\ q.was \in Waiting
                                              /\ status[q.id] \in {q.was, "deleted"}
      BY <1>0, <2>5 DEF Kept, Runs
    <3>2. \A q \in x.rows : q.id = dom.id => status[q.id] = "deleted"
      <4>1. ASSUME NEW q \in x.rows, q.id = dom.id, status[q.id] # "deleted" PROVE FALSE
        <5>1. q.was = dom.was /\ q \in Listed /\ dom \in Listed
          BY <2>1, <3>1, <4>1
        <5>2. q = dom
          BY <4>1, <5>1 DEF Listed
        <5> QED BY <2>1, <5>2
      <4> QED BY <4>1
    <3>3. \A q \in x.rows : q.was \in Waiting /\ status'[q.id] \in {q.was, "deleted"}
      BY <1>1, <2>1, <2>4, <3>1, <3>2 DEF Live, Stored, Waiting
    <3>4. \A d \in Ids : Move(d)
      BY <2>1, <2>3, <2>4, <3>1 DEF Move, Live, Stored, Waiting
    <3> QED BY <2>1, <3>3, <3>4 DEF Kept
  <2> QED BY <1>0, <2>1, <2>2, <2>5, LockMove
<1>5. CASE ProvisionLooksUp(s, Validate)
  <2>1. PICK dom \in run[Validate][s].rows, x \in Runs :
            /\ dom.id \in Ids /\ dom.was \in {"validated", "active"}
            /\ run' = [run EXCEPT ![Validate][s] = x]
            /\ x.cur = dom.id /\ x.rows = run[Validate][s].rows \ {dom}
    BY <1>0, <1>5, LooksUpRun
  <2>2. UNCHANGED <<status, loopVars>>
    BY <1>5 DEF ProvisionLooksUp, OnlyRun
  <2>3. ASSUME Validate \notin lapsed PROVE Kept(x)'
    <3>1. \A q \in run[Validate][s].rows : q \in Listed /\ q.was \in Waiting
                                           /\ status[q.id] \in {q.was, "deleted"}
      BY <1>0, <2>3 DEF Kept, Runs
    <3>2. dom.was = "validated"
      BY <2>1, <3>1 DEF Waiting
    <3>3. \A q \in x.rows : q.id = dom.id => status[q.id] = "deleted"
      <4>1. ASSUME NEW q \in x.rows, q.id = dom.id, status[q.id] # "deleted" PROVE FALSE
        <5>1. q.was = dom.was /\ q \in Listed /\ dom \in Listed
          BY <2>1, <3>1, <4>1
        <5>2. q = dom
          BY <4>1, <5>1 DEF Listed
        <5> QED BY <2>1, <5>2
      <4> QED BY <4>1
    <3> QED BY <2>1, <2>2, <3>1, <3>2, <3>3 DEF Kept
  <2> QED BY <1>0, <1>2, <2>1, <2>2, <2>3, LockMove
<1>6. CASE ProvisionStores(s, Validate) \/ ProvisionFails(s, Validate)
  <2>1. PICK x \in Runs :
            /\ run' = [run EXCEPT ![Validate][s] = x] /\ run[Validate][s].at = "store"
            /\ x.rows = run[Validate][s].rows /\ x.cur = run[Validate][s].cur
    BY <1>0, <1>6, GotoRun DEF ProvisionStores, ProvisionFails, At
  <2>2. UNCHANGED <<status, loopVars>>
    BY <1>6 DEF ProvisionStores, ProvisionFails
  <2>3. Validate \notin lapsed => Kept(x)'
    BY <1>0, <2>1, <2>2 DEF Kept
  <2> QED BY <1>0, <1>2, <2>1, <2>2, <2>3, LockMove
<1>7. CASE Activate(s) \/ MarkFailed(s, Validate)
  <2>1. PICK x \in Runs :
            /\ run' = [run EXCEPT ![Validate][s] = x] /\ run[Validate][s].at \in {"activate", "fail"}
            /\ x.at = "next" /\ x.rows = run[Validate][s].rows
    BY <1>0, <1>7, GotoRun DEF Activate, MarkFailed, At
  <2>2. UNCHANGED loopVars
    BY <1>7 DEF Activate, MarkFailed
  <2> DEFINE cur == run[Validate][s].cur
  <2>3. PICK st \in {"active", "failed"} : status' = status \/ status' = UpdateStatus(cur, st)
    BY <1>7 DEF Activate, MarkFailed
  <2>4. ASSUME Validate \notin lapsed PROVE Kept(x)' /\ \A d \in Ids : Move(d)
    <3>1. /\ \A q \in run[Validate][s].rows : q.was \in Waiting /\ status[q.id] \in {q.was, "deleted"}
          /\ cur \in Ids /\ status[cur] \in {"validated", "deleted"}
          /\ \A q \in x.rows : q.id = cur => status[cur] = "deleted"
      BY <1>0, <2>1, <2>4 DEF Kept
    <3> HIDE DEF cur
    <3>2. \A e \in Ids : status'[e] = status[e] \/ (e = cur /\ Live(e) /\ status'[e] = st)
      BY <2>3, <3>1, UpdateStatusIs DEF Stored, Waiting
    <3>3. \A q \in x.rows : q.was \in Waiting /\ status'[q.id] \in {q.was, "deleted"}
      BY <1>1, <2>1, <3>1, <3>2 DEF Live, Stored, Waiting
    <3>4. \A d \in Ids : Move(d)
      BY <3>1, <3>2 DEF Move, Live, Stored, Waiting
    <3> QED BY <2>1, <3>3, <3>4 DEF Kept
  <2> QED BY <1>0, <2>1, <2>2, <2>4, LockMove
<1>8. CASE EndRun(s, Validate)
  <2>1. /\ UNCHANGED <<status, lapsed>>
        /\ inside'[Validate] = inside[Validate] \ {s}
        /\ mutex'[Validate] \in {mutex[Validate], Released(s, Validate)}
    BY <1>8, JobsAssumption DEF EndRun, LeaveJob, DomainsTypeOK, LoopTypeOK
  <2>2. Validate \notin lapsed => inside'[Validate] = {}
    BY <1>0, <2>1 DEF LockOK
  <2> QED BY <1>2, <2>1, <2>2 DEF LockOK
<1> QED BY <1>3, <1>4, <1>5, <1>6, <1>7, <1>8 DEF Work

\* Outside the covered run, rows only appear, are deleted, or stay.
LEMMA StaysMoves ==
  ASSUME \A d \in Ids : \/ status'[d] = status[d]
                        \/ status[d] = "unused" /\ status'[d] = "pending"
                        \/ Live(d) /\ status'[d] = "deleted"
  PROVE  \A d \in Ids : Stays(d) /\ Move(d)
BY DEF Stays, Move

LEMMA LockStep ==
  ASSUME DomainsInv, LockOK, [DomainsNext]_domainVars
  PROVE  LockOK' /\ (Validate \notin lapsed => \A d \in Ids : Move(d))
<1> USE DEF DomainsInv
<1>0. /\ \A j \in JobNames : j \in Jobs
      /\ Validate \in JobNames /\ Renew \in JobNames
      /\ \A s \in inside[Validate] : s \in Schedulers
  BY JobsAssumption DEF JobNames, DomainsTypeOK, LoopTypeOK
<1>1. ASSUME UNCHANGED <<status, loopVars>>, run'[Validate] = run[Validate]
      PROVE  LockOK' /\ \A d \in Ids : Move(d)
  BY <1>1, StaysMoves, LockKept DEF loopVars
<1>2. ASSUME NEW d \in Ids, RequestDomain(d) \/ CertAges(d)
      PROVE  LockOK' /\ \A e \in Ids : Move(e)
  <2>1. UNCHANGED <<loopVars, run>>
    BY <1>2 DEF RequestDomain, CertAges
  <2>2. \A e \in Ids : status'[e] = status[e] \/ (status[e] = "unused" /\ status'[e] = "pending")
    BY <1>2 DEF RequestDomain, CertAges, DomainsTypeOK
  <2> QED BY <2>1, <2>2, StaysMoves, LockKept DEF loopVars
<1>3. ASSUME NEW r \in DomainRequests, NEW d \in Ids, DeleteDomain(r, d)
      PROVE  LockOK' /\ \A e \in Ids : Move(e)
  <2>1. UNCHANGED <<loopVars, run>>
    BY <1>3 DEF DeleteDomain
  <2>2. \A e \in Ids : status'[e] = status[e] \/ (Live(e) /\ status'[e] = "deleted")
    BY <1>3 DEF DeleteDomain, DomainsTypeOK
  <2> QED BY <2>1, <2>2, StaysMoves, LockKept DEF loopVars
<1>4. ASSUME NEW r \in DomainRequests, RefreshLists(r) \/ \E a \in Apis : RefreshStores(r, a)
      PROVE  LockOK' /\ \A e \in Ids : Move(e)
  BY <1>1, <1>4 DEF RefreshLists, RefreshStores
<1>5. ASSUME NEW a \in Apis, StartApi(a) PROVE LockOK' /\ \A e \in Ids : Move(e)
  BY <1>1, <1>5 DEF StartApi
<1>6. ASSUME NEW j \in JobNames, Expire(j) PROVE LockOK' /\ \A e \in Ids : Move(e)
  <2>1. /\ UNCHANGED <<status, run, inside>> /\ mutex' = [mutex EXCEPT ![j] = NoOne]
        /\ mutex[j] # NoOne
        /\ lapsed' = IF mutex[j] \in inside[j] THEN lapsed \cup {j} ELSE lapsed
    BY <1>6 DEF Expire, MutexExpires
  <2>2. \A d \in Ids : Stays(d) /\ Move(d)
    BY <2>1, StaysMoves
  <2>3. CASE j = Validate /\ Validate \notin lapsed'
    <3>1. inside[Validate] = {}
      BY <2>1, <2>3 DEF LockOK
    <3> QED BY <2>1, <2>2, <3>1 DEF LockOK
  <2>4. CASE Validate \in lapsed'
    BY <2>2, <2>4 DEF LockOK
  <2>5. CASE j # Validate
    <3>1. mutex'[Validate] = mutex[Validate] /\ lapsed \subseteq lapsed'
      BY <2>1, <2>5
    <3> QED BY <2>1, <2>2, <3>1, LockKept
  <2> QED BY <2>2, <2>3, <2>4, <2>5
<1>7. ASSUME NEW s \in Schedulers, CrashScheduler(s) PROVE LockOK' /\ \A e \in Ids : Move(e)
  <2>1. UNCHANGED <<status, mutex, lapsed>> /\ inside'[Validate] = inside[Validate] \ {s}
    BY <1>0, <1>7 DEF CrashScheduler, CrashJobs
  <2>2. \A t \in inside'[Validate] : run'[Validate][t] = run[Validate][t]
    BY <1>0, <1>7, <2>1 DEF CrashScheduler, DomainsTypeOK
  <2>3. \A d \in Ids : Stays(d) /\ Move(d)
    BY <2>1, StaysMoves
  <2> QED BY <2>1, <2>2, <2>3, LockKept
<1>8. ASSUME NEW s \in Schedulers, NEW j \in JobNames, StartRun(s, j)
      PROVE  LockOK' /\ \A e \in Ids : Move(e)
  <2>1. /\ UNCHANGED <<status, run, lapsed>> /\ mutex[j] = NoOne /\ s \notin inside[j]
        /\ mutex' = [mutex EXCEPT ![j] = s]
        /\ inside' = [inside EXCEPT ![j] = @ \cup {s}]
    BY <1>8 DEF StartRun, EnterJob
  <2>2. \A d \in Ids : Stays(d) /\ Move(d)
    BY <2>1, StaysMoves
  <2>3. CASE j = Validate
    <3>1. mutex'[Validate] = s /\ inside'[Validate] = inside[Validate] \cup {s}
      BY <1>0, <2>1, <2>3 DEF DomainsTypeOK, LoopTypeOK
    <3>2. Validate \notin lapsed => inside[Validate] = {}
      BY <1>0, <2>1, <2>3, NoOneAssumption DEF LockOK
    <3>3. run[Validate][s] = NoRun
      BY <1>0, <2>1, <2>3 DEF RunsOK
    <3>4. Kept(NoRun)'
      BY DEF Kept, NoRun
    <3>5. ASSUME NEW t \in inside'[Validate], Validate \notin lapsed'
          PROVE  mutex'[Validate] = t /\ Kept(run[Validate][t])'
      <4>1. t = s
        BY <2>1, <3>1, <3>2, <3>5
      <4>2. run'[Validate][t] = NoRun
        BY <2>1, <3>3, <4>1
      <4> QED BY <3>1, <3>4, <4>1, <4>2
    <3> QED BY <2>2, <3>5 DEF LockOK
  <2>4. CASE j # Validate
    <3>1. mutex'[Validate] = mutex[Validate] /\ inside'[Validate] = inside[Validate]
      BY <2>1, <2>4
    <3> QED BY <2>1, <2>2, <3>1, LockKept
  <2> QED BY <2>3, <2>4
<1>9. ASSUME NEW s \in Schedulers, Work(s, Renew)
      PROVE  LockOK' /\ \A e \in Ids : Move(e)
  <2>1. Validate # Renew
    BY DEF Validate, Renew
  <2>2. UNCHANGED <<status, lapsed>>
    BY <1>9, <2>1 DEF Work, ListRows, ProvisionLooksUp, ProvisionStores, ProvisionFails, MarkFailed,
                     EndRun, LeaveJob, OnlyRun, loopVars
  <2>3. mutex'[Validate] = mutex[Validate] /\ inside'[Validate] = inside[Validate]
    <3>1. CASE EndRun(s, Renew)
      BY <1>0, <2>1, <3>1 DEF EndRun, LeaveJob, DomainsTypeOK, LoopTypeOK
    <3>2. CASE UNCHANGED loopVars
      BY <3>2 DEF loopVars
    <3> QED BY <1>9, <2>1, <3>1, <3>2 DEF Work, ListRows, ProvisionLooksUp, ProvisionStores,
                                          ProvisionFails, MarkFailed, OnlyRun
  <2>4. \E x : run' = [run EXCEPT ![Renew][s] = x]
    <3>1. CASE ListRows(s, Renew)
      BY <1>0, <3>1, ListRowsRun
    <3>2. CASE ProvisionLooksUp(s, Renew)
      BY <1>0, <3>2, LooksUpRun
    <3>3. CASE ProvisionStores(s, Renew) \/ ProvisionFails(s, Renew) \/ MarkFailed(s, Renew)
      BY <1>0, <2>1, <3>3, GotoRun DEF ProvisionStores, ProvisionFails, MarkFailed
    <3>4. CASE EndRun(s, Renew)
      BY <3>4 DEF EndRun
    <3> QED BY <1>9, <2>1, <3>1, <3>2, <3>3, <3>4 DEF Work
  <2>5. run'[Validate] = run[Validate]
    BY <2>1, <2>4 DEF DomainsTypeOK
  <2> QED BY <2>2, <2>3, <2>5, StaysMoves, LockKept
<1>10. ASSUME NEW s \in Schedulers, Work(s, Validate)
       PROVE  LockOK' /\ (Validate \notin lapsed => \A e \in Ids : Move(e))
  BY <1>10, ValidateLock
<1>11. CASE UNCHANGED domainVars
  BY <1>1, <1>11 DEF domainVars
<1> QED
  BY <1>2, <1>3, <1>4, <1>5, <1>6, <1>7, <1>8, <1>9, <1>10, <1>11 DEF DomainsNext, JobNames

\* Rows move along their life cycle for as long as no run outlives the mutex,
\* whichever schedulers run, crash or fail to unlock.
THEOREM LifecycleUnderLockAlways == DomainsSpec => LifecycleUnderLock
<1>1. DomainsInv /\ LockOK /\ [DomainsNext]_domainVars => LockOK'
  BY LockStep
<1>2. DomainsInv /\ LockOK /\ [DomainsNext]_domainVars
        => [Validate \notin lapsed => \A d \in Ids : Move(d)]_domainVars
  BY LockStep
<1> QED BY <1>1, <1>2, LockInit, DomainsInvInit, DomainsInvStep, PTL DEF DomainsSpec, LifecycleUnderLock

-----------------------------------------------------------------------------
(* Status pages                                                              *)

Served == [at: {"idle", "list", "groups", "monitors", "branding", "sections", "sent"},
           plan: {"free", "pro"}, mons: SUBSET Shown, left: SUBSET Shown,
           was: UNION {[S -> Health] : S \in SUBSET Shown},
           inGroup: UNION {[S -> Groups \cup {NoGroup}] : S \in SUBSET Shown},
           allUp: BOOLEAN, groups: SUBSET Groups, branding: BOOLEAN,
           failures: 0..MaxPageFailures, fine: SUBSET Shown, dropped: SUBSET Groups]

Begun == {"groups", "monitors", "sections", "sent"}

\* What the banner says of the monitors looked at so far.
BannerOK(x) ==
    /\ x.at \in {"idle", "list", "groups"} => x.allUp
    /\ x.at \in Begun =>
          /\ \A m \in x.mons : x.was[m] = "up" => m \in x.fine
          /\ x.allUp => x.mons \ x.left \subseteq x.fine
          /\ (\A m \in x.mons : x.was[m] = "up") => x.allUp
    /\ x.at \in {"groups", "monitors", "sections"} =>
          \A m \in x.mons : health[m] = "up" \/ m \in window => m \in x.fine
    /\ x.at \in {"sections", "sent"} => x.left = {}

\* Where its monitors are grouped: in groups of other users, too.
GroupsOK(x) ==
    /\ x.at \in {"monitors", "sections"} =>
          \A m \in x.mons : x.inGroup[m] \in group \cup x.dropped \cup {NoGroup}
    /\ x.at = "sent" =>
          \A m \in x.mons : x.inGroup[m] \in x.groups \cup x.dropped \cup Theirs \cup {NoGroup}
    /\ x.branding => x.at \in {"sections", "sent"}

PageOK(x) ==
    /\ x \in Served
    /\ x.left \subseteq x.mons
    /\ x.was \in [x.mons -> Health]
    /\ BannerOK(x)
    /\ GroupsOK(x)

PagesInv ==
    /\ StatusPageTypeOK
    /\ visit \in [Visits -> Served]
    /\ \A v \in Visits : PageOK(visit[v])

LEMMA PageIsOK == PageOK(Page)
<1>1. [m \in {} |-> "up"] \in [{} -> Health] /\ [m \in {} |-> NoGroup] \in [{} -> Groups \cup {NoGroup}]
  OBVIOUS
<1>2. /\ Page.at = "idle" /\ Page.plan = "free" /\ Page.mons = {} /\ Page.left = {}
      /\ Page.was = [m \in {} |-> "up"] /\ Page.allUp = TRUE /\ Page.branding = FALSE
  BY DEF Page
<1>3. Page \in Served
  <2> DEFINE was == [m \in {} |-> "up"]
             none == [m \in {} |-> NoGroup]
  <2>1. was \in UNION {[S -> Health] : S \in SUBSET Shown}
    BY <1>1
  <2>2. none \in UNION {[S -> Groups \cup {NoGroup}] : S \in SUBSET Shown}
    BY <1>1
  <2>3. 0 \in 0..MaxPageFailures
    BY PageBoundsAssumption
  <2>4. Page = [at |-> "idle", plan |-> "free", mons |-> {}, left |-> {}, was |-> was,
                inGroup |-> none, allUp |-> TRUE, groups |-> {}, branding |-> FALSE,
                failures |-> 0, fine |-> {}, dropped |-> {}]
    BY DEF Page
  <2> HIDE DEF was, none
  <2> QED BY <2>1, <2>2, <2>3, <2>4 DEF Served
<1> QED BY <1>1, <1>2, <1>3 DEF PageOK, BannerOK, GroupsOK, Begun

RowsTypeOK ==
    /\ health \in [Shown -> Health]
    /\ public \subseteq Shown /\ window \subseteq Shown
    /\ group \subseteq Groups
    /\ groupOf \in [Shown -> group \cup {NoGroup}]
    /\ pagePlan \in {"free", "pro"}
    /\ changes \in 0..MaxChanges

LEMMA PagesTypeOf ==
  ASSUME RowsTypeOK, visit \in [Visits -> Served], \A v \in Visits : PageOK(visit[v])
  PROVE  PagesInv
BY DEF PagesInv, StatusPageTypeOK, PageOK, Served, RowsTypeOK

LEMMA RowsTyped == PagesInv => RowsTypeOK
BY DEF PagesInv, StatusPageTypeOK, RowsTypeOK

LEMMA PagesInit == StatusPageInit => PagesInv
<1> SUFFICES ASSUME StatusPageInit PROVE PagesInv
  OBVIOUS
<1>1. RowsTypeOK
  BY PageBoundsAssumption DEF StatusPageInit, RowsTypeOK
<1>2. \A v \in Visits : visit[v] = Page
  BY DEF StatusPageInit
<1>3. Page \in Served
  BY PageIsOK DEF PageOK
<1> QED BY <1>1, <1>2, <1>3, PageIsOK, PagesTypeOf DEF StatusPageInit

\* A page put together so far is as good when nothing it depends on moved.
LEMMA PageKept ==
  ASSUME NEW x \in Served, PageOK(x), UNCHANGED <<health, window>>,
         \A m \in x.mons : x.inGroup[m] \in group => x.inGroup[m] \in group'
  PROVE  PageOK(x)'
BY DEF PageOK, BannerOK, GroupsOK

\* One request goes on.
LEMMA OneVisit ==
  ASSUME PagesInv, NEW v \in Visits, NEW x \in Served, visit' = [visit EXCEPT ![v] = x],
         PageOK(x), OnlyVisit
  PROVE  PagesInv'
<1>1. visit' \in [Visits -> Served] /\ \A w \in Visits : visit'[w] = IF w = v THEN x ELSE visit[w]
  BY DEF PagesInv
<1>2. RowsTypeOK'
  BY RowsTyped DEF RowsTypeOK, OnlyVisit, pageRows
<1>3. ASSUME NEW w \in Visits PROVE PageOK(visit[w])'
  <2>1. PICK y \in Served : y = visit'[w] /\ PageOK(y)
    BY <1>1 DEF PagesInv
  <2>2. PageOK(y)'
    BY <2>1, PageKept DEF OnlyVisit, pageRows
  <2> QED BY <2>1, <2>2
<1> QED BY <1>1, <1>2, <1>3 DEF PagesInv, StatusPageTypeOK, PageOK, Served, RowsTypeOK

LEMMA GetBySlugPage ==
  ASSUME PagesInv, NEW v \in Visits, GetBySlug(v)
  PROVE  PagesInv'
<1> DEFINE y == visit[v]
           x == [y EXCEPT !.at = "list", !.plan = pagePlan]
<1>1. y \in Served /\ PageOK(y) /\ y.at = "idle" /\ visit' = [visit EXCEPT ![v] = x] /\ OnlyVisit
  BY DEF GetBySlug, VisitAt, PagesInv
<1>2. pagePlan \in {"free", "pro"}
  BY DEF PagesInv, StatusPageTypeOK
<1>3. /\ x \in Served /\ x.at = "list" /\ x.plan = pagePlan
      /\ x.mons = y.mons /\ x.left = y.left /\ x.was = y.was /\ x.allUp = y.allUp
      /\ x.branding = y.branding
  BY <1>1, <1>2 DEF Served
<1> HIDE DEF x
<1>4. PageOK(x)
  BY <1>1, <1>3 DEF PageOK, BannerOK, GroupsOK, Begun
<1> QED BY <1>1, <1>3, <1>4, OneVisit

LEMMA ListPublicPage ==
  ASSUME PagesInv, NEW v \in Visits, ListPublicBySlug(v)
  PROVE  PagesInv'
<1> DEFINE y == visit[v]
           was == [m \in public |-> health[m]]
           fine == {m \in public : Fine(m)}
           x == [y EXCEPT !.at = "groups", !.mons = public, !.left = public, !.was = was, !.fine = fine]
<1>1. y \in Served /\ PageOK(y) /\ y.at = "list" /\ visit' = [visit EXCEPT ![v] = x] /\ OnlyVisit
  BY DEF ListPublicBySlug, VisitAt, PagesInv
<1>2. public \subseteq Shown /\ health \in [Shown -> Health]
  BY DEF PagesInv, StatusPageTypeOK
<1>3. /\ was \in [public -> Health] /\ \A m \in public : was[m] = health[m]
      /\ fine \subseteq public /\ \A m \in public : m \in fine <=> (health[m] = "up" \/ m \in window)
  BY <1>2 DEF Fine
<1> HIDE DEF was, fine
<1>4. was \in UNION {[S -> Health] : S \in SUBSET Shown} /\ fine \in SUBSET Shown
  BY <1>2, <1>3
<1>5. /\ x \in Served /\ x.at = "groups" /\ x.plan = y.plan
      /\ x.mons = public /\ x.left = public /\ x.was = was /\ x.allUp = y.allUp
      /\ x.branding = y.branding /\ x.fine = fine
  BY <1>1, <1>2, <1>4 DEF Served
<1> HIDE DEF x
<1>6. PageOK(x)
  BY <1>1, <1>3, <1>5 DEF PageOK, BannerOK, GroupsOK, Begun
<1> QED BY <1>1, <1>5, <1>6, OneVisit

LEMMA MembershipsPage ==
  ASSUME PagesInv, NEW v \in Visits, ListMemberships(v)
  PROVE  PagesInv'
<1> DEFINE y == visit[v]
           in == [m \in y.mons |-> groupOf[m]]
           none == [m \in y.mons |-> NoGroup]
<1>1. y \in Served /\ PageOK(y) /\ y.at = "groups" /\ OnlyVisit
  BY DEF ListMemberships, VisitAt, PagesInv
<1>2. /\ y.mons \subseteq Shown /\ groupOf \in [Shown -> group \cup {NoGroup}] /\ group \subseteq Groups
  BY <1>1 DEF PagesInv, StatusPageTypeOK, Served
<1>3. /\ \A m \in y.mons : in[m] \in group \cup {NoGroup} /\ none[m] = NoGroup
      /\ in \in [y.mons -> Groups \cup {NoGroup}] /\ none \in [y.mons -> Groups \cup {NoGroup}]
  BY <1>2
<1> HIDE DEF in, none
<1>4. ASSUME NEW f \in {in, none}, NEW k \in 0..MaxPageFailures,
             visit' = [visit EXCEPT ![v] = [y EXCEPT !.at = "monitors", !.inGroup = f, !.failures = k]]
      PROVE  PagesInv'
  <2> DEFINE x == [y EXCEPT !.at = "monitors", !.inGroup = f, !.failures = k]
  <2>1. f \in UNION {[S -> Groups \cup {NoGroup}] : S \in SUBSET Shown}
    BY <1>2, <1>3
  <2>2. /\ x \in Served /\ x.at = "monitors" /\ x.plan = y.plan
        /\ x.mons = y.mons /\ x.left = y.left /\ x.was = y.was /\ x.allUp = y.allUp
        /\ x.branding = y.branding /\ x.fine = y.fine /\ x.dropped = y.dropped /\ x.inGroup = f
    BY <1>1, <2>1 DEF Served
  <2> HIDE DEF x
  <2>3. PageOK(x)
    BY <1>1, <1>3, <2>2 DEF PageOK, BannerOK, GroupsOK, Begun
  <2> QED BY <1>1, <1>4, <2>2, <2>3, OneVisit DEF x
<1>5. y.failures \in 0..MaxPageFailures /\ (MayFail(v) => y.failures + 1 \in 0..MaxPageFailures)
  BY <1>1, PageBoundsAssumption DEF MayFail, Served
<1>6. CASE visit' = [visit EXCEPT ![v].at = "monitors", ![v].inGroup = in]
  <2>1. [y EXCEPT !.at = "monitors", !.inGroup = in]
          = [y EXCEPT !.at = "monitors", !.inGroup = in, !.failures = y.failures]
    BY <1>1 DEF Served
  <2> QED BY <1>4, <1>5, <1>6, <2>1
<1>7. CASE MayFail(v) /\ visit' = [visit EXCEPT ![v].at = "monitors", ![v].failures = @ + 1,
                                                ![v].inGroup = none]
  <2>1. [y EXCEPT !.at = "monitors", !.failures = y.failures + 1, !.inGroup = none]
          = [y EXCEPT !.at = "monitors", !.inGroup = none, !.failures = y.failures + 1]
    BY <1>1 DEF Served
  <2> QED BY <1>4, <1>5, <1>7, <2>1
<1> QED BY <1>6, <1>7 DEF ListMemberships, in, none

LEMMA ShowMonitorPage ==
  ASSUME PagesInv, NEW v \in Visits, ShowMonitor(v)
  PROVE  PagesInv'
<1> DEFINE y == visit[v]
<1>1. y \in Served /\ PageOK(y) /\ y.at = "monitors" /\ OnlyVisit
  BY DEF ShowMonitor, VisitAt, PagesInv
<1>2. PICK m \in y.left, fails \in {b \in BOOLEAN : b => MayFail(v)} :
          visit' = [visit EXCEPT
            ![v].left = @ \ {m},
            ![v].allUp = @ /\ (y.was[m] = "up" \/ InMaintenance(m, fails)),
            ![v].failures = IF fails THEN @ + 1 ELSE @]
  BY DEF ShowMonitor
<1> DEFINE all == y.allUp /\ (y.was[m] = "up" \/ InMaintenance(m, fails))
           k == IF fails THEN y.failures + 1 ELSE y.failures
           x == [y EXCEPT !.left = y.left \ {m}, !.allUp = all, !.failures = k]
<1>3. visit' = [visit EXCEPT ![v] = x]
  BY <1>2
<1>4. k \in 0..MaxPageFailures
  <2>1. y.failures \in 0..MaxPageFailures
    BY <1>1 DEF Served
  <2>2. CASE fails
    BY <1>2, <2>1, <2>2, PageBoundsAssumption DEF MayFail
  <2>3. CASE ~fails
    BY <2>1, <2>3
  <2> QED BY <2>2, <2>3
<1>5. /\ all \in BOOLEAN
      /\ all => y.allUp /\ (y.was[m] = "up" \/ m \in window)
      /\ y.allUp /\ y.was[m] = "up" => all
  BY DEF InMaintenance
<1> HIDE DEF all, k
<1>6. /\ x \in Served /\ x.at = "monitors" /\ x.plan = y.plan
      /\ x.mons = y.mons /\ x.left = y.left \ {m} /\ x.was = y.was /\ x.allUp = all
      /\ x.branding = y.branding /\ x.fine = y.fine /\ x.dropped = y.dropped /\ x.inGroup = y.inGroup
  BY <1>1, <1>4, <1>5 DEF Served
<1> HIDE DEF x
<1>7. PageOK(x)
  <2>1. BannerOK(x)
    BY <1>1, <1>2, <1>5, <1>6 DEF PageOK, BannerOK, Begun
  <2> QED BY <1>1, <1>6, <2>1 DEF PageOK, GroupsOK
<1> QED BY <1>1, <1>3, <1>6, <1>7, OneVisit

LEMMA BrandPage ==
  ASSUME PagesInv, NEW v \in Visits, Brand(v)
  PROVE  PagesInv'
<1> DEFINE y == visit[v]
<1>1. y \in Served /\ PageOK(y) /\ y.at = "monitors" /\ y.left = {} /\ OnlyVisit
  BY DEF Brand, VisitAt, PagesInv
<1>2. ASSUME NEW k \in 0..MaxPageFailures, NEW shows \in BOOLEAN, shows => y.plan = "pro",
             visit' = [visit EXCEPT ![v] = [y EXCEPT !.at = "sections", !.branding = shows, !.failures = k]]
      PROVE  PagesInv'
  <2> DEFINE x == [y EXCEPT !.at = "sections", !.branding = shows, !.failures = k]
  <2>1. /\ x \in Served /\ x.at = "sections" /\ x.plan = y.plan
        /\ x.mons = y.mons /\ x.left = y.left /\ x.was = y.was /\ x.allUp = y.allUp
        /\ x.branding = shows /\ x.fine = y.fine /\ x.dropped = y.dropped /\ x.inGroup = y.inGroup
    BY <1>1 DEF Served
  <2> HIDE DEF x
  <2>2. PageOK(x)
    BY <1>1, <1>2, <2>1 DEF PageOK, BannerOK, GroupsOK, Begun
  <2> QED BY <1>1, <1>2, <2>1, <2>2, OneVisit DEF x
<1>3. /\ y.failures \in 0..MaxPageFailures
      /\ MayFail(v) => y.failures + 1 \in 0..MaxPageFailures
      /\ y.branding = FALSE
  BY <1>1, PageBoundsAssumption DEF MayFail, Served, PageOK, GroupsOK
<1>4. CASE visit' = [visit EXCEPT ![v].at = "sections", ![v].branding = (y.plan = "pro")]
  <2> DEFINE shows == (y.plan = "pro")
  <2>1. visit' = [visit EXCEPT ![v] = [y EXCEPT !.at = "sections", !.branding = shows]]
    BY <1>4
  <2>2. shows \in BOOLEAN /\ (shows => y.plan = "pro")
    OBVIOUS
  <2> HIDE DEF shows
  <2>3. [y EXCEPT !.at = "sections", !.branding = shows]
          = [y EXCEPT !.at = "sections", !.branding = shows, !.failures = y.failures]
    BY <1>1 DEF Served
  <2> QED BY <1>2, <1>3, <2>1, <2>2, <2>3
<1>5. CASE MayFail(v) /\ visit' = [visit EXCEPT ![v].at = "sections", ![v].failures = @ + 1]
  <2>1. [y EXCEPT !.at = "sections", !.failures = y.failures + 1]
          = [y EXCEPT !.at = "sections", !.branding = FALSE, !.failures = y.failures + 1]
    BY <1>1, <1>3 DEF Served
  <2>2. visit' = [visit EXCEPT ![v] = [y EXCEPT !.at = "sections", !.branding = FALSE,
                                                !.failures = y.failures + 1]]
    BY <1>5, <2>1
  <2>3. FALSE \in BOOLEAN
    OBVIOUS
  <2> HIDE DEF y
  <2> QED BY <1>2, <1>3, <1>5, <2>2, <2>3
<1> QED BY <1>4, <1>5 DEF Brand

LEMMA SectionsPage ==
  ASSUME PagesInv, NEW v \in Visits, ListSections(v)
  PROVE  PagesInv'
<1> DEFINE y == visit[v]
<1>1. y \in Served /\ PageOK(y) /\ y.at = "sections" /\ OnlyVisit
  BY DEF ListSections, VisitAt, PagesInv
<1>2. group \subseteq Groups /\ \A m \in y.mons : y.inGroup[m] \in Groups \cup {NoGroup}
  BY <1>1 DEF PagesInv, StatusPageTypeOK, PageOK, GroupsOK, Served
<1>3. ASSUME visit' = [visit EXCEPT ![v].at = "sent", ![v].groups = group \ Theirs] PROVE PagesInv'
  <2> DEFINE x == [y EXCEPT !.at = "sent", !.groups = group \ Theirs]
  <2>1. /\ x \in Served /\ x.at = "sent" /\ x.plan = y.plan
        /\ x.mons = y.mons /\ x.left = y.left /\ x.was = y.was /\ x.allUp = y.allUp
        /\ x.branding = y.branding /\ x.fine = y.fine /\ x.dropped = y.dropped /\ x.inGroup = y.inGroup
        /\ x.groups = group \ Theirs
    BY <1>1, <1>2 DEF Served
  <2>2. visit' = [visit EXCEPT ![v] = x]
    BY <1>3
  <2> HIDE DEF x
  <2>3. PageOK(x)
    BY <1>1, <2>1 DEF PageOK, BannerOK, GroupsOK, Begun
  <2> QED BY <1>1, <2>1, <2>2, <2>3, OneVisit
<1>4. ASSUME MayFail(v), visit' = [visit EXCEPT ![v].at = "sent", ![v].failures = @ + 1,
                                                ![v].dropped = Groups]
      PROVE  PagesInv'
  <2> DEFINE x == [y EXCEPT !.at = "sent", !.failures = y.failures + 1, !.dropped = Groups]
  <2>0. y.failures + 1 \in 0..MaxPageFailures
    BY <1>1, <1>4, PageBoundsAssumption DEF MayFail, Served
  <2>1. /\ x \in Served /\ x.at = "sent" /\ x.plan = y.plan
        /\ x.mons = y.mons /\ x.left = y.left /\ x.was = y.was /\ x.allUp = y.allUp
        /\ x.branding = y.branding /\ x.fine = y.fine /\ x.dropped = Groups /\ x.inGroup = y.inGroup
    BY <1>1, <2>0 DEF Served
  <2>2. visit' = [visit EXCEPT ![v] = x]
    BY <1>4
  <2> HIDE DEF x
  <2>3. PageOK(x)
    BY <1>1, <1>2, <2>1 DEF PageOK, BannerOK, GroupsOK, Begun
  <2> QED BY <1>1, <2>1, <2>2, <2>3, OneVisit
<1> QED BY <1>3, <1>4 DEF ListSections

LEMMA NotFoundPage ==
  ASSUME PagesInv, NEW v \in Visits, NotFound(v)
  PROVE  PagesInv'
BY PageIsOK, OneVisit DEF NotFound, PageOK

\* The rows change, and requests under way remember it.
LEMMA RowsMove ==
  ASSUME PagesInv, RowsTypeOK', NEW healthy \in SUBSET Shown, NEW gone \in SUBSET Groups,
         Remember(healthy, gone),
         \A m \in Shown : health'[m] = "up" \/ m \in window' => m \in healthy,
         group \ group' \subseteq gone
  PROVE  PagesInv'
<1>1. ASSUME NEW v \in Visits PROVE visit'[v] \in Served /\ PageOK(visit[v])'
  <2>1. PICK x \in Served : x = visit[v] /\ PageOK(x)
    BY DEF PagesInv
  <2>2. x.mons \subseteq Shown
    BY <2>1 DEF Served
  <2>3. CASE x.at \notin {"idle", "sent"}
    <3>0. visit'[v] = [x EXCEPT !.fine = x.fine \cup (x.mons \cap healthy),
                                !.dropped = x.dropped \cup gone]
      BY <2>1, <2>3 DEF Remember, Reading
    <3>1. PICK y : y = [x EXCEPT !.fine = x.fine \cup (x.mons \cap healthy),
                                 !.dropped = x.dropped \cup gone]
      OBVIOUS
    <3>2. /\ visit'[v] = y /\ y \in Served
              /\ y.at = x.at /\ y.plan = x.plan /\ y.mons = x.mons /\ y.left = x.left /\ y.was = x.was
              /\ y.inGroup = x.inGroup /\ y.allUp = x.allUp /\ y.groups = x.groups
              /\ y.branding = x.branding
              /\ y.fine = x.fine \cup (x.mons \cap healthy)
              /\ y.dropped = x.dropped \cup gone
      BY <3>0, <3>1 DEF Served
    <3>3. BannerOK(y)'
      BY <2>1, <2>2, <2>3, <3>2 DEF PageOK, BannerOK, Begun
    <3>4. GroupsOK(y)'
      BY <2>1, <2>2, <2>3, <3>2 DEF PageOK, GroupsOK
    <3>5. PageOK(y)'
      BY <2>1, <3>2, <3>3, <3>4 DEF PageOK
    <3> QED BY <3>2, <3>5
  <2>4. CASE x.at \in {"idle", "sent"}
    <3>1. visit'[v] = x
      BY <2>1, <2>4 DEF Remember, Reading
    <3>2. PageOK(x)'
      BY <2>1, <2>4 DEF PageOK, BannerOK, GroupsOK
    <3> QED BY <3>1, <3>2
  <2> QED BY <2>3, <2>4
<1>2. visit' \in [Visits -> Served]
  BY <1>1 DEF Remember
<1> QED BY <1>1, <1>2 DEF PagesInv, StatusPageTypeOK, PageOK, Served, RowsTypeOK

\* Rows change that no request has to remember.
LEMMA RowsMoveUnseen ==
  ASSUME PagesInv, RowsTypeOK', UNCHANGED <<health, window, visit>>, group \subseteq group'
  PROVE  PagesInv'
<1>1. ASSUME NEW v \in Visits PROVE PageOK(visit[v])'
  <2>1. PICK x \in Served : x = visit[v] /\ PageOK(x)
    BY DEF PagesInv
  <2>2. PageOK(x)'
    BY <2>1, PageKept
  <2> QED BY <2>1, <2>2
<1> QED BY <1>1 DEF PagesInv, StatusPageTypeOK, PageOK, Served, RowsTypeOK

LEMMA ChangesType ==
  ASSUME changes \in 0..MaxChanges, Changes
  PROVE  changes' \in 0..MaxChanges
BY PageBoundsAssumption DEF Changes

LEMMA PagesStep == PagesInv /\ [StatusPageNext]_pageVars => PagesInv'
<1> SUFFICES ASSUME PagesInv, [StatusPageNext]_pageVars PROVE PagesInv'
  OBVIOUS
<1>0. RowsTypeOK
  BY RowsTyped
<1> USE DEF RowsTypeOK
<1>1. ASSUME NEW v \in Visits, GetStatusPage(v) PROVE PagesInv'
  BY <1>1, GetBySlugPage, ListPublicPage, MembershipsPage, ShowMonitorPage, BrandPage, SectionsPage,
     NotFoundPage DEF GetStatusPage
<1>2. ASSUME NEW m \in Shown, NEW st \in {"up", "down"}, UpdateStatusOf(m, st) PROVE PagesInv'
  <2>1. RowsTypeOK'
    BY <1>0, <1>2, ChangesType DEF UpdateStatusOf, Health
  <2>2. FineSoon \in SUBSET Shown /\ \A k \in Shown : health'[k] = "up" \/ k \in window' => k \in FineSoon
    BY DEF FineSoon
  <2>3. Remember(FineSoon, {}) /\ group' = group
    BY <1>2 DEF UpdateStatusOf
  <2> HIDE DEF RowsTypeOK
  <2> QED BY <2>1, <2>2, <2>3, RowsMove
<1>3. ASSUME NEW m \in Shown, Maintenance(m) PROVE PagesInv'
  <2>1. RowsTypeOK'
    BY <1>0, <1>3, ChangesType DEF Maintenance
  <2>2. FineSoon \in SUBSET Shown /\ \A k \in Shown : health'[k] = "up" \/ k \in window' => k \in FineSoon
    BY DEF FineSoon
  <2>3. Remember(FineSoon, {}) /\ group' = group
    BY <1>3 DEF Maintenance
  <2> HIDE DEF RowsTypeOK
  <2> QED BY <2>1, <2>2, <2>3, RowsMove
<1>4. ASSUME NEW m \in Shown, Publish(m) PROVE PagesInv'
  <2>1. RowsTypeOK'
    BY <1>0, <1>4, ChangesType DEF Publish
  <2> QED BY <1>4, <2>1, RowsMoveUnseen DEF Publish
<1>5. ASSUME NEW m \in Shown, NEW g \in Groups \cup {NoGroup}, AssignMonitorGroup(m, g) PROVE PagesInv'
  <2>1. RowsTypeOK'
    BY <1>0, <1>5, ChangesType DEF AssignMonitorGroup
  <2> QED BY <1>5, <2>1, RowsMoveUnseen DEF AssignMonitorGroup
<1>6. ASSUME NEW g \in Groups, CreateMonitorGroup(g) PROVE PagesInv'
  <2>1. RowsTypeOK'
    BY <1>0, <1>6, ChangesType DEF CreateMonitorGroup
  <2> QED BY <1>6, <2>1, RowsMoveUnseen DEF CreateMonitorGroup
<1> DEFINE healthy == {m \in Shown : Fine(m)}
<1>7. ASSUME UNCHANGED <<health, window>>
      PROVE  healthy \in SUBSET Shown /\ \A k \in Shown : health'[k] = "up" \/ k \in window' => k \in healthy
  BY <1>7 DEF Fine
<1>8. ASSUME NEW g \in Groups, DeleteMonitorGroup(g) PROVE PagesInv'
  <2>1. RowsTypeOK'
    <3>1. groupOf' \in [Shown -> group' \cup {NoGroup}]
      BY <1>0, <1>8 DEF DeleteMonitorGroup
    <3> QED BY <1>0, <1>8, <3>1, ChangesType DEF DeleteMonitorGroup
  <2>2. /\ UNCHANGED <<health, window>> /\ Remember(healthy, {g})
        /\ group \ group' \subseteq {g}
    BY <1>8 DEF DeleteMonitorGroup
  <2> HIDE DEF RowsTypeOK, healthy
  <2> QED BY <1>7, <2>1, <2>2, RowsMove
<1>9. CASE ChangePagePlan
  <2>1. RowsTypeOK'
    BY <1>0, <1>9, ChangesType DEF ChangePagePlan
  <2> QED BY <1>9, <2>1, RowsMoveUnseen DEF ChangePagePlan
<1>10. CASE UNCHANGED pageVars
  <2>1. RowsTypeOK'
    BY <1>0, <1>10 DEF pageVars, pageRows
  <2> QED BY <1>10, <2>1, RowsMoveUnseen DEF pageVars, pageRows
<1> QED
  BY <1>1, <1>2, <1>3, <1>4, <1>5, <1>6, <1>8, <1>9, <1>10 DEF StatusPageNext

LEMMA PagesInvariance == StatusPageSpec => []PagesInv
BY PagesInit, PagesStep, PTL DEF StatusPageSpec

\* Only well-formed rows and pages are reachable.
THEOREM StatusPageTypeCorrect == StatusPageSpec => []StatusPageTypeOK
<1>1. PagesInv => StatusPageTypeOK
  BY DEF PagesInv
<1> QED BY PagesInvariance, <1>1, PTL

\* "All up" is only said when each monitor was up or in maintenance at some moment
\* of the request, although status and window are read apart; and the badge never
\* says more than the banner.
THEOREM AllUpWasTrueAlways == StatusPageSpec => []AllUpWasTrue
<1>1. PagesInv => AllUpWasTrue
  <2> SUFFICES ASSUME PagesInv, NEW v \in Visits, VisitAt(v, "sent")
               PROVE  /\ visit[v].allUp => visit[v].mons \subseteq visit[v].fine
                      /\ BadgeState(v) = "operational" => visit[v].allUp
    BY DEF AllUpWasTrue
  <2>1. PICK x \in Served : x = visit[v] /\ PageOK(x) /\ x.at = "sent"
    BY DEF PagesInv, VisitAt
  <2>2. x.allUp => x.mons \subseteq x.fine
    BY <2>1 DEF PageOK, BannerOK, Begun
  <2>3. ASSUME BadgeState(v) = "operational", NEW m \in x.mons PROVE x.was[m] = "up"
    <3>1. x.was[m] \in Health /\ x.was[m] \in {x.was[k] : k \in x.mons}
      BY <2>1, <2>3 DEF PageOK
    <3>2. x.was[m] # "down" /\ x.was[m] # "unknown"
      BY <2>1, <2>3, <3>1 DEF BadgeState
    <3> QED BY <3>1, <3>2 DEF Health
  <2>4. BadgeState(v) = "operational" => x.allUp
    BY <2>1, <2>3 DEF PageOK, BannerOK, Begun
  <2> QED BY <2>1, <2>2, <2>4
<1> QED BY PagesInvariance, <1>1, PTL

\* A monitor's group is on the page, belongs to another user, was deleted meanwhile,
\* or the groups could not be read.
THEOREM SectionsResolveAlways == StatusPageSpec => []SectionsResolve
<1>1. PagesInv => SectionsResolve
  BY DEF PagesInv, PageOK, GroupsOK, SectionsResolve, VisitAt
<1> QED BY PagesInvariance, <1>1, PTL

-----------------------------------------------------------------------------
(* Subscriptions                                                             *)

Notices == [at: {"idle", "list", "send", "done", "cut"}, page: Pages \cup {Newsletter},
            left: SUBSET Rows, failed: SUBSET Rows, began: SUBSET Rows, consented: SUBSET Rows]

\* Reached(n, x): what is owed to r, once the subscribers are listed.
Reached(n, x, r) ==
    <<n, r>> \in told \/ r \in x.failed \/ r \in x.left \/ row[r] = "deleted"

\* A notification x of the update n: whom it may mail, and whom it still has to.
NoticeOK(n, x) ==
    /\ x.at # "idle" => x.page \in Pages
    /\ x.left \subseteq x.consented
    /\ \A r \in x.left \cup x.failed : ListOf(r) = x.page
    /\ \A r \in Rows : <<n, r>> \in told => x.at # "idle" /\ r \in x.consented
    /\ x.at \in {"list", "send"} =>
          \A r \in Rows : ListOf(r) = x.page /\ row[r] = "confirmed" => r \in x.consented
    /\ x.at = "list" =>
          \A r \in x.began : ListOf(r) = x.page /\ row[r] \in {"confirmed", "deleted"}
    /\ x.at \in {"send", "done"} => \A r \in x.began : Reached(n, x, r)
    /\ x.at = "done" => x.left = {}

SubsInv ==
    /\ SubscriptionsTypeOK
    /\ notify \in [Notifications -> Notices]
    /\ \A n \in Notifications : NoticeOK(n, notify[n])

LEMMA RowIsRow ==
  ASSUME NEW r \in Rows
  PROVE  ListOf(r) \in Pages \cup {Newsletter}
BY SignupsAssumption DEF Rows, ListOf

LEMMA SubsTypeOf ==
  ASSUME notify \in [Notifications -> Notices], \A n \in Notifications : NoticeOK(n, notify[n]),
         row \in [Rows -> Pending \cup {"unused", "confirmed", "deleted"}],
         told \subseteq Notifications \X Rows, mailFailures \in 0..MaxMailFailures
  PROVE  SubsInv
BY DEF SubsInv, SubscriptionsTypeOK, NoticeOK, Notices

LEMMA SubsInit == SubscriptionsInit => SubsInv
<1> SUFFICES ASSUME SubscriptionsInit PROVE SubsInv
  OBVIOUS
<1>1. Quiet \in Notices
  BY DEF Quiet, Notices
<1>2. ASSUME NEW n \in Notifications PROVE NoticeOK(n, notify[n])
  BY DEF SubscriptionsInit, Quiet, NoticeOK
<1> QED BY <1>1, <1>2, SubsTypeOf, MailFailuresAssumption DEF SubscriptionsInit

\* Rows are confirmed and deleted for good, and nothing else is mailed for n.
Onward == \A r \in Rows : /\ row'[r] = "confirmed" => row[r] = "confirmed"
                          /\ row[r] = "confirmed" => row'[r] \in {"confirmed", "deleted"}
                          /\ row[r] = "deleted" => row'[r] = "deleted"
NotTold(n) == \A r \in Rows : <<n, r>> \in told' <=> <<n, r>> \in told

LEMMA NoticeKept ==
  ASSUME NEW n \in Notifications, NEW x \in Notices, NoticeOK(n, x), Onward, NotTold(n)
  PROVE  NoticeOK(n, x)'
<1>1. x.began \subseteq Rows
  BY DEF Notices
<1> QED BY <1>1 DEF NoticeOK, Reached, Onward, NotTold

\* One notification goes on.
LEMMA OneNotice ==
  ASSUME SubsInv, NEW n \in Notifications, NEW x \in Notices, notify' = [notify EXCEPT ![n] = x],
         NoticeOK(n, x)', UNCHANGED row, \A k \in Notifications : k # n => NotTold(k),
         told' \subseteq Notifications \X Rows, mailFailures' \in 0..MaxMailFailures
  PROVE  SubsInv'
<1>1. Onward
  BY DEF Onward
<1>2. notify' \in [Notifications -> Notices] /\ notify'[n] = x
  BY DEF SubsInv
<1>3. ASSUME NEW k \in Notifications PROVE NoticeOK(k, notify[k])'
  <2>1. CASE k = n
    BY <1>2, <2>1
  <2>2. CASE k # n
    <3>1. PICK y \in Notices : y = notify[k] /\ NoticeOK(k, y)
      BY DEF SubsInv
    <3>2. NoticeOK(k, y)'
      BY <1>1, <2>2, <3>1, NoticeKept
    <3>3. notify'[k] = y
      BY <2>2, <3>1 DEF SubsInv
    <3> QED BY <3>2, <3>3
  <2> QED BY <2>1, <2>2
<1>4. row' \in [Rows -> Pending \cup {"unused", "confirmed", "deleted"}]
  BY DEF SubsInv, SubscriptionsTypeOK
<1> QED BY <1>2, <1>3, <1>4 DEF SubsInv, SubscriptionsTypeOK, NoticeOK, Notices

\* A row goes on and nobody is mailed.
LEMMA OnlyRows ==
  ASSUME SubsInv, Onward, UNCHANGED <<notify, told>>,
         row' \in [Rows -> Pending \cup {"unused", "confirmed", "deleted"}],
         mailFailures' \in 0..MaxMailFailures
  PROVE  SubsInv'
<1>1. ASSUME NEW k \in Notifications PROVE NoticeOK(k, notify[k])'
  <2>1. PICK y \in Notices : y = notify[k] /\ NoticeOK(k, y)
    BY DEF SubsInv
  <2>2. NoticeOK(k, y)'
    BY <2>1, NoticeKept DEF NotTold
  <2> QED BY <2>1, <2>2
<1> QED BY <1>1 DEF SubsInv, SubscriptionsTypeOK, NoticeOK, Notices

LEMMA MailFailsType ==
  ASSUME mailFailures \in 0..MaxMailFailures, MailFails
  PROVE  mailFailures' \in 0..MaxMailFailures
BY MailFailuresAssumption DEF MailFails

LEMMA SubsStep == SubsInv /\ [SubscriptionsNext]_subVars => SubsInv'
<1> SUFFICES ASSUME SubsInv, [SubscriptionsNext]_subVars PROVE SubsInv'
  OBVIOUS
<1> USE DEF SubsInv
<1>0. /\ row \in [Rows -> Pending \cup {"unused", "confirmed", "deleted"}]
      /\ told \subseteq Notifications \X Rows
      /\ mailFailures \in 0..MaxMailFailures
      /\ MailFails => mailFailures' \in 0..MaxMailFailures
  BY MailFailsType DEF SubscriptionsTypeOK
<1>1. ASSUME NEW r \in Rows, Subscribe(r) \/ SendConfirmation(r) \/ Unsubscribe(r)
      PROVE  SubsInv'
  <2>1. Onward
    BY <1>0, <1>1 DEF Subscribe, SendConfirmation, Unsubscribe, CreateSubscriber,
                      UnsubscribeSubscriber, Set, Onward
  <2>2. row' \in [Rows -> Pending \cup {"unused", "confirmed", "deleted"}]
    BY <1>0, <1>1 DEF Subscribe, SendConfirmation, Unsubscribe, CreateSubscriber,
                      UnsubscribeSubscriber, Set, Pending
  <2> QED BY <1>0, <1>1, <2>1, <2>2, OnlyRows DEF Subscribe, SendConfirmation, Unsubscribe
<1>2. ASSUME NEW r \in Rows, Confirm(r) PROVE SubsInv'
  <2>1. /\ row' = [row EXCEPT ![r] = "confirmed"] /\ row[r] = "mailed" /\ UNCHANGED <<told, mailFailures>>
    BY <1>2 DEF Confirm, ConfirmSubscriber, Set
  <2>2. ASSUME NEW k \in Notifications PROVE notify'[k] \in Notices /\ NoticeOK(k, notify[k])'
    <3>1. PICK y \in Notices : y = notify[k] /\ NoticeOK(k, y)
      OBVIOUS
    <3>2. \A q \in Rows : IF q = r THEN row'[q] = "confirmed" ELSE row'[q] = row[q]
      BY <1>0, <2>1
    <3>3. y.began \subseteq Rows /\ y.left \subseteq Rows
      BY <3>1 DEF Notices
    <3>4. CASE y.at \in {"list", "send"}
      <4> DEFINE z == [y EXCEPT !.consented = y.consented \cup {r}]
      <4>1. notify'[k] = z
        BY <1>2, <3>1, <3>4 DEF Confirm
      <4>2. /\ z \in Notices /\ z.at = y.at /\ z.page = y.page /\ z.left = y.left
            /\ z.failed = y.failed /\ z.began = y.began
            /\ z.consented = y.consented \cup {r}
        BY <3>1 DEF Notices
      <4> HIDE DEF z
      <4>3. NoticeOK(k, z)'
        BY <2>1, <3>1, <3>2, <3>3, <3>4, <4>2 DEF NoticeOK, Reached
      <4> QED BY <4>1, <4>2, <4>3
    <3>5. CASE y.at \notin {"list", "send"}
      <4>1. notify'[k] = y
        BY <1>2, <3>1, <3>5 DEF Confirm
      <4>2. NoticeOK(k, y)'
        BY <2>1, <3>1, <3>2, <3>3, <3>5 DEF NoticeOK, Reached
      <4> QED BY <4>1, <4>2
    <3> QED BY <3>4, <3>5
  <2>3. notify' \in [Notifications -> Notices]
    BY <1>2, <2>2 DEF Confirm
  <2>4. row' \in [Rows -> Pending \cup {"unused", "confirmed", "deleted"}]
    BY <1>0, <2>1
  <2> QED BY <1>0, <2>1, <2>2, <2>3, <2>4 DEF SubscriptionsTypeOK, NoticeOK, Notices
<1>3. ASSUME NEW n \in Notifications, NEW page \in Pages, NotifyIncidentAsync(n, page)
      PROVE  SubsInv'
  <2> DEFINE confirmed == {r \in Rows : ListOf(r) = page /\ row[r] = "confirmed"}
             made == [Quiet EXCEPT !.at = "list", !.page = page, !.began = confirmed,
                                !.consented = confirmed]
  <2>1. notify' = [notify EXCEPT ![n] = made] /\ notify[n].at = "idle"
        /\ UNCHANGED <<row, told, mailFailures>>
    BY <1>3 DEF NotifyIncidentAsync
  <2>0. /\ made \in Notices /\ made.at = "list" /\ made.page = page /\ made.left = {}
        /\ made.failed = {} /\ made.began = confirmed /\ made.consented = confirmed
    BY DEF Quiet, Notices
  <2> HIDE DEF made
  <2>2. PICK x \in Notices :
            /\ x = made /\ x.at = "list" /\ x.page = page /\ x.left = {} /\ x.failed = {}
            /\ x.began = confirmed /\ x.consented = confirmed
    BY <2>0
  <2>3. NoticeOK(n, x)'
    BY <2>1, <2>2 DEF NoticeOK, Reached
  <2> QED BY <1>0, <2>1, <2>2, <2>3, OneNotice DEF NotTold
<1>4. ASSUME NEW n \in Notifications, ListSubscribers(n) PROVE SubsInv'
  <2> DEFINE rows == ListConfirmedBySlug(notify[n].page)
             made == [notify[n] EXCEPT !.at = "send", !.left = rows]
  <2>1. notify' = [notify EXCEPT ![n] = made] /\ notify[n].at = "list"
        /\ UNCHANGED <<row, told, mailFailures>>
    BY <1>4 DEF ListSubscribers
  <2>2. rows \subseteq Rows
    BY DEF ListConfirmedBySlug
  <2>3. notify[n] \in Notices /\ NoticeOK(n, notify[n])
    OBVIOUS
  <2> DEFINE y == notify[n]
  <2>4. /\ made \in Notices /\ made.at = "send" /\ made.page = y.page /\ made.left = rows
        /\ made.failed = y.failed /\ made.began = y.began /\ made.consented = y.consented
        /\ y.began \subseteq Rows
    BY <2>2, <2>3 DEF Notices
  <2> HIDE DEF made
  <2>5. PICK x \in Notices :
            /\ x = made /\ x.at = "send" /\ x.page = y.page /\ x.left = rows /\ x.failed = y.failed
            /\ x.began = y.began /\ x.consented = y.consented /\ y.began \subseteq Rows
    BY <2>4
  <2>6. NoticeOK(n, x)'
    BY <2>1, <2>3, <2>5 DEF NoticeOK, Reached, ListConfirmedBySlug
  <2> QED BY <1>0, <2>1, <2>5, <2>6, OneNotice DEF NotTold
<1>5. ASSUME NEW n \in Notifications, SendMail(n) PROVE SubsInv'
  <2>1. PICK r \in notify[n].left :
            /\ notify' = [notify EXCEPT ![n].left = @ \ {r}]
            /\ told' = told \cup {<<n, r>>}
            /\ notify[n].at = "send" /\ UNCHANGED <<row, mailFailures>>
    BY <1>5 DEF SendMail
  <2> DEFINE y == notify[n]
             made == [y EXCEPT !.left = y.left \ {r}]
  <2>2. y \in Notices /\ NoticeOK(n, y)
    OBVIOUS
  <2>3. notify' = [notify EXCEPT ![n] = made]
    BY <2>1
  <2>4. /\ made \in Notices /\ made.at = y.at /\ made.page = y.page /\ made.left = y.left \ {r}
        /\ made.failed = y.failed /\ made.began = y.began /\ made.consented = y.consented /\ r \in Rows
    BY <2>1, <2>2 DEF Notices
  <2> HIDE DEF made
  <2>5. PICK x \in Notices :
            /\ x = made /\ x.at = y.at /\ x.page = y.page /\ x.left = y.left \ {r}
            /\ x.failed = y.failed /\ x.began = y.began /\ x.consented = y.consented /\ r \in Rows
    BY <2>4
  <2>6. NoticeOK(n, x)'
    <3>1. \A q : <<n, q>> \in told' <=> <<n, q>> \in told \/ q = r
      BY <2>1
    <3> QED BY <2>1, <2>2, <2>5, <3>1 DEF NoticeOK, Reached
  <2>7. told' \subseteq Notifications \X Rows /\ \A k \in Notifications : k # n => NotTold(k)
    BY <1>0, <2>1, <2>5 DEF NotTold
  <2> QED BY <1>0, <2>1, <2>3, <2>5, <2>6, <2>7, OneNotice
<1>6. ASSUME NEW n \in Notifications, SendMailFails(n) PROVE SubsInv'
  <2>1. PICK r \in notify[n].left :
            /\ notify' = [notify EXCEPT ![n].left = @ \ {r}, ![n].failed = @ \cup {r}]
            /\ MailFails
            /\ notify[n].at = "send" /\ UNCHANGED <<row, told>>
    BY <1>6 DEF SendMailFails
  <2> DEFINE y == notify[n]
             made == [y EXCEPT !.left = y.left \ {r}, !.failed = y.failed \cup {r}]
  <2>2. y \in Notices /\ NoticeOK(n, y)
    OBVIOUS
  <2>3. notify' = [notify EXCEPT ![n] = made]
    BY <2>1
  <2>4. /\ made \in Notices /\ made.at = y.at /\ made.page = y.page /\ made.left = y.left \ {r}
        /\ made.failed = y.failed \cup {r} /\ made.began = y.began /\ made.consented = y.consented
    BY <2>1, <2>2 DEF Notices
  <2> HIDE DEF made
  <2>5. PICK x \in Notices :
            /\ x = made /\ x.at = y.at /\ x.page = y.page /\ x.left = y.left \ {r}
            /\ x.failed = y.failed \cup {r} /\ x.began = y.began /\ x.consented = y.consented
    BY <2>4
  <2>6. NoticeOK(n, x)'
    BY <2>1, <2>2, <2>5 DEF NoticeOK, Reached
  <2> QED BY <1>0, <2>1, <2>3, <2>5, <2>6, OneNotice DEF NotTold
<1>7. ASSUME NEW n \in Notifications, EndNotify(n) \/ CutNotify(n) PROVE SubsInv'
  <2>1. PICK place \in {"done", "cut"} :
            /\ notify' = [notify EXCEPT ![n].at = place]
            /\ place = "done" => notify[n].at = "send" /\ notify[n].left = {}
            /\ notify[n].at # "idle"
            /\ UNCHANGED <<row, told>>
            /\ mailFailures' = mailFailures \/ MailFails
    BY <1>7 DEF EndNotify, CutNotify
  <2> DEFINE y == notify[n]
             made == [y EXCEPT !.at = place]
  <2>2. y \in Notices /\ NoticeOK(n, y)
    OBVIOUS
  <2>3. notify' = [notify EXCEPT ![n] = made]
    BY <2>1
  <2>4. /\ made \in Notices /\ made.at = place /\ made.page = y.page /\ made.left = y.left
        /\ made.failed = y.failed /\ made.began = y.began /\ made.consented = y.consented
    BY <2>1, <2>2 DEF Notices
  <2> HIDE DEF made
  <2>5. PICK x \in Notices :
            /\ x = made /\ x.at = place /\ x.page = y.page /\ x.left = y.left
            /\ x.failed = y.failed /\ x.began = y.began /\ x.consented = y.consented
    BY <2>4
  <2>6. NoticeOK(n, x)'
    BY <2>1, <2>2, <2>5 DEF NoticeOK, Reached
  <2> QED BY <1>0, <2>1, <2>3, <2>5, <2>6, OneNotice DEF NotTold
<1>8. CASE UNCHANGED subVars
  <2>1. Onward /\ UNCHANGED <<notify, told>>
    BY <1>8 DEF Onward, subVars
  <2> QED BY <1>0, <1>8, <2>1, OnlyRows DEF subVars
<1> QED
  BY <1>1, <1>2, <1>3, <1>4, <1>5, <1>6, <1>7, <1>8 DEF SubscriptionsNext, NotifyIncident

LEMMA SubsInvariance == SubscriptionsSpec => []SubsInv
BY SubsInit, SubsStep, PTL DEF SubscriptionsSpec

\* Only well-formed rows and notifications are reachable.
THEOREM SubscriptionsTypeCorrect == SubscriptionsSpec => []SubscriptionsTypeOK
<1>1. SubsInv => SubscriptionsTypeOK
  BY DEF SubsInv
<1> QED BY SubsInvariance, <1>1, PTL

\* An incident mail goes only to an address that had confirmed and had not
\* unsubscribed by the time of the update it tells of.
THEOREM MailNeedsConsentAlways == SubscriptionsSpec => []MailNeedsConsent
<1>1. SubsInv => MailNeedsConsent
  BY DEF SubsInv, NoticeOK, MailNeedsConsent
<1> QED BY SubsInvariance, <1>1, PTL

\* A batch that went through left nobody out who had confirmed before it began,
\* however many of its mails failed.
THEOREM BatchReachesAllAlways == SubscriptionsSpec => []BatchReachesAll
<1>1. SubsInv => BatchReachesAll
  BY DEF SubsInv, NoticeOK, Reached, BatchReachesAll, Notices
<1> QED BY SubsInvariance, <1>1, PTL
=============================================================================
