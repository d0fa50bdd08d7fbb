------------------------------ MODULE Billing ------------------------------
(* Paid plans.  LemonSqueezy sells subscriptions and reports every change by *)
(* a webhook, which it repeats until it is answered 200; the handler         *)
(* (adapter/http/webhook.go) changes the user's row in up to three separate  *)
(* steps.  Founder seats are limited to Cap (app/billing.go).                *)
(*                                                                           *)
(* Webhooks are numbered in the order in which LemonSqueezy first sends      *)
(* them.  They are handled by several API processes at once, so nothing      *)
(* keeps that order.                                                         *)
EXTENDS Integers, FiniteSets

CONSTANTS Customers,
          FounderCap,       \* FOUNDER_CAP
          MaxWebhooks,      \* bound: changes of subscriptions
          MaxBillFailures,  \* bound: failing statements and crashes
          NoHook

ASSUME CapAssumption == FounderCap \in Nat \ {0}
ASSUME WebhooksAssumption == MaxWebhooks \in Nat /\ NoHook \notin Nat
ASSUME CustomersAssumption == IsFiniteSet(Customers)
ASSUME BillFailuresAssumption == MaxBillFailures \in Nat

VARIABLES subscription,  \* what LemonSqueezy knows
          webhook,       \* the webhooks and how far their handlers are
          plan,          \* users.plan
          linked,        \* is users.lemon_squeezy_subscription_id set?
          variant,       \* users.subscription_variant
          seatLock,      \* holder of the advisory lock of TagFromWebhook
          billFailures,
          tagged,        \* history: tagged since the last upgrade from free
          muddled        \* history: an event was dropped, or overtook another

rowVars == <<plan, linked, variant, tagged>>
billVars == <<subscription, webhook, rowVars, seatLock, billFailures, muddled>>

Numbers == 1..MaxWebhooks
Variants == {"founder", "retail"}
Unsent == [at |-> "unsent"]
Webhooks == {Unsent} \cup
    [at: {"waiting", "plan", "link", "lock", "set", "answer", "done"},
     user: Customers, event: {"active", "cancelled"},
     requested: Variants, chosen: Variants]

(* Only well-formed rows and webhooks exist, and only a webhook that decides *)
(* on a variant holds the lock.                                              *)
BillingTypeOK ==
    /\ subscription \in [Customers -> {"none", "active", "cancelled"}]
    /\ webhook \in [Numbers -> Webhooks]
    /\ plan \in [Customers -> {"free", "pro"}]
    /\ linked \in [Customers -> BOOLEAN]
    /\ variant \in [Customers -> Variants \cup {"none"}]
    /\ seatLock \in Numbers \cup {NoHook}
    /\ billFailures \in 0..MaxBillFailures
    /\ tagged \subseteq Customers
    /\ muddled \subseteq Customers

(* Some founders have been paying for a while; the others are new.           *)
BillingInit ==
    /\ \E F \in SUBSET Customers :
          /\ Cardinality(F) <= FounderCap
          /\ subscription = [u \in Customers |-> IF u \in F THEN "active" ELSE "none"]
          /\ plan = [u \in Customers |-> IF u \in F THEN "pro" ELSE "free"]
          /\ linked = [u \in Customers |-> u \in F]
          /\ variant = [u \in Customers |-> IF u \in F THEN "founder" ELSE "none"]
          /\ tagged = F
    /\ webhook = [n \in Numbers |-> Unsent]
    /\ seatLock = NoHook
    /\ billFailures = 0
    /\ muddled = {}

-----------------------------------------------------------------------------
(* LemonSqueezy.                                                             *)

Outstanding(n) == webhook[n].at \notin {"unsent", "done"}

Send(u, event, requested) ==
    \E n \in Numbers :
        /\ webhook[n] = Unsent
        /\ \A m \in Numbers : m < n => webhook[m] # Unsent
        /\ webhook' = [webhook EXCEPT ![n] =
              [at |-> "waiting", user |-> u, event |-> event,
               requested |-> requested, chosen |-> requested]]

(* A checkout with the link of one of the two variants, or a renewal.        *)
BuySubscription(u, requested) ==
    /\ Send(u, "active", requested)
    /\ subscription' = [subscription EXCEPT ![u] = "active"]
    /\ UNCHANGED <<rowVars, seatLock, billFailures, muddled>>

CancelSubscription(u) ==
    /\ subscription[u] = "active"
    /\ Send(u, "cancelled", "retail")
    /\ subscription' = [subscription EXCEPT ![u] = "cancelled"]
    /\ UNCHANGED <<rowVars, seatLock, billFailures, muddled>>

-----------------------------------------------------------------------------
(* Statements.                                                               *)

Founders == {u \in Customers : plan[u] = "pro" /\ variant[u] = "founder"}
CountActiveFounderSubscriptions == Cardinality(Founders)

UpdateUserPlan(u, p) ==
    /\ plan' = [plan EXCEPT ![u] = p]
    /\ tagged' = IF plan[u] = "free" THEN tagged \ {u} ELSE tagged

UpdateLemonSqueezy(u) == linked' = [linked EXCEPT ![u] = TRUE]

SetSubscriptionVariant(u, v) ==
    /\ variant' = [variant EXCEPT ![u] = v]
    /\ tagged' = tagged \cup {u}

(* Mutant: the seats are counted without the advisory lock.                  *)
AcquireFounderCapLockNot(n) == UNCHANGED seatLock

(* pg_advisory_xact_lock.                                                    *)
AcquireFounderCapLock(n) == seatLock = NoHook /\ seatLock' = n

-----------------------------------------------------------------------------
(* The handler.                                                              *)

HookAt(n, place) == webhook[n].at = place
HookGoto(n, place) == webhook' = [webhook EXCEPT ![n].at = place]
BillFails == billFailures < MaxBillFailures /\ billFailures' = billFailures + 1

(* GetUserByEmail.  Whatever goes wrong is taken for an unknown user and     *)
(* answered 200, so the event is not sent again.                             *)
Lookup(n) ==
    /\ HookAt(n, "waiting")
    /\ \/ HookGoto(n, "plan") /\ UNCHANGED <<billFailures, muddled>>
       \/ /\ BillFails
          /\ HookGoto(n, "done")
          /\ muddled' = muddled \cup {webhook[n].user}
    /\ UNCHANGED <<subscription, rowVars, seatLock>>

Overtakes(n) ==
    \E m \in Numbers : m < n /\ Outstanding(m) /\ webhook[m].user = webhook[n].user

(* Mutant: a cancelled event leaves the plan as it is.                       *)
ChangePlanOnlyUp(n) ==
    /\ HookAt(n, "plan")
    /\ UpdateUserPlan(webhook[n].user, "pro")
    /\ HookGoto(n, IF webhook[n].event = "active" THEN "link" ELSE "answer")
    /\ muddled' = IF Overtakes(n) THEN muddled \cup {webhook[n].user} ELSE muddled
    /\ UNCHANGED <<subscription, linked, variant, seatLock, billFailures>>

(* UpgradeToPro begins, or DowngradeToFree.                                  *)
ChangePlan(n) ==
    /\ HookAt(n, "plan")
    /\ LET active == webhook[n].event = "active" IN
       /\ UpdateUserPlan(webhook[n].user, IF active THEN "pro" ELSE "free")
       /\ HookGoto(n, IF active THEN "link" ELSE "answer")
    /\ muddled' = IF Overtakes(n) THEN muddled \cup {webhook[n].user} ELSE muddled
    /\ UNCHANGED <<subscription, linked, variant, seatLock, billFailures>>

(* UpgradeToPro goes on with a statement of its own.                         *)
Link(n) ==
    /\ HookAt(n, "link")
    /\ UpdateLemonSqueezy(webhook[n].user)
    /\ HookGoto(n, "lock")
    /\ UNCHANGED <<subscription, plan, variant, tagged, seatLock, billFailures, muddled>>

(* TagFromWebhook: under the lock the seats are counted, ...                 *)
CountSeats(n) ==
    /\ HookAt(n, "lock")
    /\ IF webhook[n].requested = "founder"
       THEN /\ AcquireFounderCapLock(n)
            /\ webhook' = [webhook EXCEPT ![n].at = "set", ![n].chosen =
                  IF CountActiveFounderSubscriptions >= FounderCap
                  THEN "retail" ELSE "founder"]
       ELSE HookGoto(n, "set") /\ UNCHANGED seatLock
    /\ UNCHANGED <<subscription, rowVars, billFailures, muddled>>

Unlocked(n) == IF seatLock = n THEN NoHook ELSE seatLock

(* ... and the variant is set; the commit gives the lock back.               *)
Tag(n) ==
    /\ HookAt(n, "set")
    /\ SetSubscriptionVariant(webhook[n].user, webhook[n].chosen)
    /\ seatLock' = Unlocked(n)
    /\ HookGoto(n, "answer")
    /\ UNCHANGED <<subscription, plan, linked, billFailures, muddled>>

(* The transaction fails: logged, and answered 200 all the same.             *)
TagFails(n) ==
    /\ webhook[n].at \in {"lock", "set"}
    /\ BillFails
    /\ seatLock' = Unlocked(n)
    /\ HookGoto(n, "answer")
    /\ UNCHANGED <<subscription, rowVars, muddled>>

(* Mutant: a failing upgrade is answered 200.                                *)
UnansweredIsFinal(n) ==
    /\ webhook[n].at \in {"plan", "link", "lock", "set", "answer"}
    /\ BillFails
    /\ seatLock' = Unlocked(n)
    /\ HookGoto(n, "done")
    /\ UNCHANGED <<subscription, rowVars, muddled>>

(* A failing upgrade or downgrade is answered 500; a crash, or an answer     *)
(* that is lost, looks the same to LemonSqueezy: it sends the event again.   *)
Unanswered(n) ==
    /\ webhook[n].at \in {"plan", "link", "lock", "set", "answer"}
    /\ BillFails
    /\ seatLock' = Unlocked(n)
    /\ webhook' = [webhook EXCEPT ![n].at = "waiting", ![n].chosen = webhook[n].requested]
    /\ UNCHANGED <<subscription, rowVars, muddled>>

Answer(n) ==
    /\ HookAt(n, "answer")
    /\ HookGoto(n, "done")
    /\ UNCHANGED <<subscription, rowVars, seatLock, billFailures, muddled>>

HandleLemonSqueezy(n) ==
    Lookup(n) \/ ChangePlan(n) \/ Link(n) \/ CountSeats(n) \/ Tag(n) \/ TagFails(n)
    \/ Unanswered(n) \/ Answer(n)

BillingNext ==
    \/ \E u \in Customers : \/ \E v \in Variants : BuySubscription(u, v)
                            \/ CancelSubscription(u)
    \/ \E n \in Numbers : HandleLemonSqueezy(n)

BillingSpec == BillingInit /\ [][BillingNext]_billVars

(* LemonSqueezy repeats what is not answered, and handlers go on.            *)
BillingFairness ==
    \A n \in Numbers : WF_billVars(HandleLemonSqueezy(n))

-----------------------------------------------------------------------------
(* Properties.                                                               *)

(* Whatever the order of upgrades, cancellations, retries and failures, the  *)
(* founders exceed the cap by no more than those among them who came back    *)
(* with a tag of an earlier subscription and have not been tagged since:     *)
(* TagFromWebhook itself never sells a seat too many (billing.go:44-90).     *)
OversoldOnlyByReturns ==
    Cardinality(Founders) <= FounderCap + Cardinality(Founders \ tagged)

(* "Founder seats are a real scarcity promise [...] so the cap is the source *)
(* of truth" (billing.go:10-15), "founder count must not exceed the cap"     *)
(* (webhook_test.go:178-188): counted as there, once every webhook has been  *)
(* answered, and none of them dropped or taken out of order.                 *)
SeatsWithinCap ==
    (muddled = {} /\ \A n \in Numbers : ~Outstanding(n))
        => Cardinality(Founders) <= FounderCap

(* Once nothing is under way a user is pro exactly while the subscription is *)
(* active, and then its id is stored, unless one of the user's events was    *)
(* dropped by Lookup or applied before an older one (webhook.go:94-138).     *)
PlanFollowsSubscription ==
    \A u \in Customers :
        (u \notin muddled /\ \A n \in Numbers : Outstanding(n) => webhook[n].user # u)
        => /\ plan[u] = "pro" <=> subscription[u] = "active"
           /\ plan[u] = "pro" => linked[u]

(* "Swallowing the error and returning 200 would leave the customer stuck on *)
(* Free after paying" (webhook.go:105-107): a paying customer becomes pro,   *)
(* unless he cancels first or Lookup dropped the event.                      *)
PaidBecomesPro ==
    \A u \in Customers : subscription[u] = "active" ~>
        (plan[u] = "pro" \/ subscription[u] # "active" \/ u \in muddled)
=============================================================================
