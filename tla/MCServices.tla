----------------------------- MODULE MCServices -----------------------------
(* The services beside the check pipeline, model-checked side by side.  They *)
(* share no state that matters to their properties, so a behaviour runs one  *)
(* of them, chosen at the start, and leaves the others as they are: their    *)
(* state spaces add up instead of multiplying.                               *)
EXTENDS CustomDomains, Billing, Access, Subscriptions, AtlassianImport, MonitorQuota, StatusPage, Secrets

CONSTANTS u1, u2, h1, c1, c2, s1, k1, p1, e1, e2,
          Running  \* the components a behaviour may run

VARIABLE part  \* the component that runs

ServicesInit ==
    /\ part \in Running
    /\ DomainsInit /\ BillingInit /\ AccessInit /\ SubscriptionsInit /\ QuotaInit
    /\ part # "billing" => tagged = {}
    /\ IF part = "import" THEN ImportInit
       ELSE /\ upload = [components |-> {}, incidents |-> <<>>]
            /\ turn = 0 /\ written = Nothing /\ stored = Nothing /\ outcome = "running"
    /\ IF part = "secrets" THEN SecretsInit
       ELSE SecretsInit /\ column = [r \in Configs |-> As("unused")]
    /\ IF part = "page" THEN StatusPageInit
       ELSE /\ health = [m \in Shown |-> "unknown"] /\ public = {} /\ window = {}
            /\ group = {} /\ groupOf = [m \in Shown |-> NoGroup] /\ pagePlan = "free"
            /\ visit = [v \in Visits |-> Page] /\ changes = 0

(* One definition for what each component leaves alone.                      *)
NotDomains == UNCHANGED domainVars
NotBilling == UNCHANGED billVars
NotAccess == UNCHANGED accessVars
NotSubscriptions == UNCHANGED subVars
NotImport == UNCHANGED importVars
NotQuota == UNCHANGED quotaVars
NotPage == UNCHANGED pageVars
NotSecrets == UNCHANGED secretVars

ServicesNext ==
    /\ UNCHANGED part
    /\ \/ /\ part = "domains" /\ DomainsNext
          /\ NotBilling /\ NotAccess /\ NotSubscriptions /\ NotImport /\ NotQuota /\ NotPage /\ NotSecrets
       \/ /\ part = "billing" /\ BillingNext
          /\ NotDomains /\ NotAccess /\ NotSubscriptions /\ NotImport /\ NotQuota /\ NotPage /\ NotSecrets
       \/ /\ part = "access" /\ AccessNext
          /\ NotDomains /\ NotBilling /\ NotSubscriptions /\ NotImport /\ NotQuota /\ NotPage /\ NotSecrets
       \/ /\ part = "subscriptions" /\ SubscriptionsNext
          /\ NotDomains /\ NotBilling /\ NotAccess /\ NotImport /\ NotQuota /\ NotPage /\ NotSecrets
       \/ /\ part = "import" /\ ImportNext
          /\ NotDomains /\ NotBilling /\ NotAccess /\ NotSubscriptions /\ NotQuota /\ NotPage /\ NotSecrets
       \/ /\ part = "quota" /\ QuotaNext
          /\ NotDomains /\ NotBilling /\ NotAccess /\ NotSubscriptions /\ NotImport /\ NotPage /\ NotSecrets
       \/ /\ part = "page" /\ StatusPageNext
          /\ NotDomains /\ NotBilling /\ NotAccess /\ NotSubscriptions /\ NotImport /\ NotQuota /\ NotSecrets
       \/ /\ part = "secrets" /\ SecretsNext
          /\ NotDomains /\ NotBilling /\ NotAccess /\ NotSubscriptions /\ NotImport /\ NotQuota /\ NotPage

servicesVars == <<part, domainVars, billVars, accessVars, subVars, importVars, quotaVars, pageVars,
                  secretVars>>

ServicesSpec == ServicesInit /\ [][ServicesNext]_servicesVars

(* The component that runs keeps its types.                                  *)
ServicesTypeOK ==
    /\ part = "domains" => DomainsTypeOK
    /\ part = "billing" => BillingTypeOK
    /\ part = "access" => AccessTypeOK
    /\ part = "subscriptions" => SubscriptionsTypeOK
    /\ part = "import" => ImportTypeOK
    /\ part = "quota" => QuotaTypeOK
    /\ part = "page" => StatusPageTypeOK
    /\ part = "secrets" => SecretsTypeOK

-----------------------------------------------------------------------------
(* Values of the constants.                                                  *)

MCControls == [h \in Hosts |-> u1]
MCJobs == {"custom-domain", "cert-renewal"}

(* One call may be anything, with any credential; the other one logs out.    *)
MCAsks(c, h, w) == c = c1 \/ (h.op = "Logout" /\ w \in Sessions)
(* The other call sends paths as the table has them; this one also with a    *)
(* slash at the end, or with one of the first two parts or the last in       *)
(* another case.                                                             *)
MCSent(c, path) ==
    IF c = c1
    THEN {Spelled(path, {}, TRUE)} \cup {Spelled(path, odd, FALSE) : odd \in {{}, {1}, {2}, {Len(path)}}}
    ELSE {path}
MCScopes == [k \in Keys |-> {<<"monitors", "write">>, <<"channels", "read">>}]

MCSignups == {<<p1, e1>>, <<p1, e2>>, <<Newsletter, e1>>}
MCLimit == [p \in {"free", "pro"} |-> IF p = "pro" THEN 3 ELSE 1]

(* Exports of up to two components and two incidents.                        *)
Component(id, url) == [id |-> id, url |-> url]
MCComponents == {{Component("x", TRUE)}, {Component("x", TRUE), Component("y", FALSE)},
                 {Component("x", TRUE), Component("y", TRUE)}}
MCIncidents ==
    [components: {<<"x">>, <<"z", "y">>, <<"y", "x">>},
     status: {"investigating", "postmortem", "odd"}, resolved: BOOLEAN,
     updates: {<<>>, <<"odd">>, <<"identified", "resolved">>}]
MCExports ==
    [components: MCComponents,
     incidents: {<<>>} \cup {<<i>> : i \in MCIncidents} \cup {<<i, j>> : i, j \in MCIncidents}]
=============================================================================
