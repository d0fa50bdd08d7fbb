--------------------------- MODULE ServicesProofs ---------------------------
(* The services of MCServices keep their types, from the invariants of the   *)
(* components.                                                               *)
EXTENDS MCServices, AccountProofs, PageProofs

\* The invariant of the component that runs; the others stand still.
ServicesInv ==
    /\ part \in Running
    /\ part = "domains" => DomainsTypeOK
    /\ part = "billing" => BillingTypeOK
    /\ part = "access" => AccessInv
    /\ part = "subscriptions" => SubsInv
    /\ part = "import" => ImportInv
    /\ part = "quota" => QuotaTypeOK
    /\ part = "page" => PagesInv
    /\ part = "secrets" => SecretsTypeOK

LEMMA ServicesInvInit == ServicesInit => ServicesInv
<1> SUFFICES ASSUME ServicesInit
             PROVE  ServicesInv
  OBVIOUS
<1>1. /\ part \in Running
      /\ DomainsInit /\ BillingInit /\ AccessInit /\ SubscriptionsInit /\ QuotaInit
      /\ SecretsInit
      /\ part = "page" => StatusPageInit
      /\ part = "import" => ImportInit
  BY DEF ServicesInit
<1> QED BY <1>1, DomainsTypeInit, BillingTypeInit, AccessInvInit, SubsInit, ImportInvInit,
           QuotaTypeInit, PagesInit, SecretsTypeInit DEF ServicesInv

LEMMA ServicesInvStep == ServicesInv /\ [ServicesNext]_servicesVars => ServicesInv'
<1> SUFFICES ASSUME ServicesInv, [ServicesNext]_servicesVars
             PROVE  ServicesInv'
  OBVIOUS
<1>1. /\ part' = part
      /\ part = "domains" => [DomainsNext]_domainVars
      /\ part = "billing" => [BillingNext]_billVars
      /\ part = "access" => [AccessNext]_accessVars
      /\ part = "subscriptions" => [SubscriptionsNext]_subVars
      /\ part = "import" => [ImportNext]_importVars
      /\ part = "quota" => [QuotaNext]_quotaVars
      /\ part = "page" => [StatusPageNext]_pageVars
      /\ part = "secrets" => [SecretsNext]_secretVars
  BY DEF ServicesNext, servicesVars
<1> QED BY <1>1, DomainsTypeStep, BillingTypeStep, AccessInvStep, SubsStep, ImportInvStep,
           QuotaTypeStep, PagesStep, SecretsTypeStep DEF ServicesInv

\* Whichever service runs, its rows, entries, requests and processes are well formed,
\* for any number of each.
THEOREM ServicesTypeCorrect == ServicesSpec => []ServicesTypeOK
<1>1. ServicesInv => ServicesTypeOK
  BY ImportTypeOf DEF ServicesInv, ServicesTypeOK, AccessInv, SubsInv, PagesInv
<1> QED BY <1>1, ServicesInvInit, ServicesInvStep, PTL DEF ServicesSpec
=============================================================================
