----------------------------- MODULE MCProgress -----------------------------
(* What must eventually happen in the monitor events, the custom domains and *)
(* the billing webhooks.  A behaviour runs one of the three, chosen at the   *)
(* start, and leaves the others as they are.                                 *)
EXTENDS MonitorSync, CustomDomains, Billing

CONSTANTS u1, u2, h1, h2, s1

VARIABLE part  \* the component that runs

(* The custom domains run twice: "domains" has one row and all schedulers,   *)
(* "queue" one scheduler and another row, which never validates and may be   *)
(* ahead of the first in the list.                                           *)
Asked == {<<u1, h1, 1>>} \cup (IF part = "queue" THEN {<<u2, h2, 1>>} ELSE {})
Ticking == IF part = "queue" THEN {s1} ELSE Schedulers
DomainParts == {"domains", "queue"}

ProgressInit ==
    /\ part \in {"sync", "billing"} \cup DomainParts
    /\ Init /\ DomainsInit /\ BillingInit
    /\ part # "billing" => tagged = {}

ProgressNext ==
    /\ UNCHANGED part
    /\ \/ part = "sync" /\ Next /\ UNCHANGED <<domainVars, billVars>>
       \/ /\ part \in DomainParts /\ DomainsNext /\ UNCHANGED <<vars, billVars>>
          /\ \A d \in Ids \ Asked : status'[d] = "unused"
          /\ \A j \in {Validate, Renew} : inside'[j] \subseteq Ticking
       \/ part = "billing" /\ BillingNext /\ UNCHANGED <<vars, domainVars>>

(* Fairness, DomainsFairness and BillingFairness, each for the behaviours of *)
(* its part.                                                                 *)
ProgressFairness ==
    /\ \A r \in Requests : WF_vars(part = "sync" /\ (Serve(r) \/ PublishFails(r)))
    /\ \A i \in Instances :
          /\ WF_vars(part = "sync" /\ Start(i))
          /\ SF_vars(part = "sync" /\ Consume(i))
          /\ WF_vars(part = "sync" /\ Handle(i))
    /\ \A j \in {Validate, Renew} :
          /\ WF_domainVars(part \in DomainParts /\ \E s \in Ticking : StartRun(s, j))
          /\ WF_domainVars(part \in DomainParts /\ Abandoned(j) /\ Expire(j))
          /\ \A s \in Schedulers : WF_domainVars(part \in DomainParts /\ Work(s, j))
    /\ \A n \in Numbers : WF_billVars(part = "billing" /\ HandleLemonSqueezy(n))

ProgressSpec ==
    ProgressInit /\ [][ProgressNext]_<<part, vars, domainVars, billVars>> /\ ProgressFairness

(* The first user serves his tokens, the other user nothing.                 *)
MCControls == [h \in Hosts |-> u1]
MCJobs == {"custom-domain", "cert-renewal"}
=============================================================================
