--------------------------- MODULE AccountProofs ---------------------------
(* Proofs about the components of an account: Billing, MonitorQuota,         *)
(* Secrets, Access and AtlassianImport, for any number of customers,         *)
(* webhooks, requests, sessions, keys, processes, rows and exports.          *)
EXTENDS Billing, MonitorQuota, Secrets, Access, AtlassianImport,
        FiniteSetTheorems, SequenceTheorems, TLAPS

-----------------------------------------------------------------------------
(* Billing: types                                                            *)

LEMMA BillingTypeInit == BillingInit => BillingTypeOK
<1> SUFFICES ASSUME BillingInit PROVE BillingTypeOK
  OBVIOUS
<1>1. Unsent \in Webhooks
  BY DEF Webhooks
<1>2. webhook \in [Numbers -> Webhooks]
  BY <1>1 DEF BillingInit
<1>3. PICK F \in SUBSET Customers :
        /\ subscription = [u \in Customers |-> IF u \in F THEN "active" ELSE "none"]
        /\ plan = [u \in Customers |-> IF u \in F THEN "pro" ELSE "free"]
        /\ linked = [u \in Customers |-> u \in F]
        /\ variant = [u \in Customers |-> IF u \in F THEN "founder" ELSE "none"]
        /\ tagged = F
  BY DEF BillingInit
<1>4. linked \in [Customers -> BOOLEAN]
  <2>1. \A u \in Customers : (u \in F) \in BOOLEAN
    OBVIOUS
  <2>2. linked = [u \in Customers |-> u \in F]
    BY <1>3
  <2> QED BY <2>1, <2>2, Zenon
<1>5. /\ subscription \in [Customers -> {"none", "active", "cancelled"}]
      /\ plan \in [Customers -> {"free", "pro"}]
      /\ variant \in [Customers -> Variants \cup {"none"}]
      /\ tagged \subseteq Customers
  BY <1>3 DEF Variants
<1> QED
  BY <1>2, <1>4, <1>5, BillFailuresAssumption DEF BillingInit, BillingTypeOK

\* A webhook that was sent has all its fields.
LEMMA SentType ==
  ASSUME BillingTypeOK, NEW n \in Numbers, webhook[n].at # "unsent"
  PROVE  /\ webhook[n].user \in Customers
         /\ webhook[n].event \in {"active", "cancelled"}
         /\ webhook[n].requested \in Variants
         /\ webhook[n].chosen \in Variants
         /\ webhook[n] \in [at: {"waiting", "plan", "link", "lock", "set", "answer", "done"},
                            user: Customers, event: {"active", "cancelled"},
                            requested: Variants, chosen: Variants]
BY DEF BillingTypeOK, Webhooks, Unsent

\* A handler that goes on leaves the webhooks well-formed.
LEMMA GotoType ==
  ASSUME BillingTypeOK, NEW n \in Numbers, webhook[n].at # "unsent",
         NEW place \in {"waiting", "plan", "link", "lock", "set", "answer", "done"},
         NEW v \in Variants,
         webhook' = [webhook EXCEPT ![n].at = place, ![n].chosen = v]
         \/ HookGoto(n, place)
  PROVE  webhook' \in [Numbers -> Webhooks]
<1>1. webhook'[n] \in Webhooks
  BY SentType DEF BillingTypeOK, HookGoto, Webhooks
<1>2. \A m \in Numbers : m # n => webhook'[m] = webhook[m]
  BY DEF BillingTypeOK, HookGoto
<1>3. webhook' = [m \in Numbers |-> webhook'[m]]
  BY DEF BillingTypeOK, HookGoto
<1> QED
  BY <1>1, <1>2, <1>3 DEF BillingTypeOK

LEMMA SendType ==
  ASSUME BillingTypeOK, NEW u \in Customers, NEW event \in {"active", "cancelled"},
         NEW requested \in Variants, Send(u, event, requested)
  PROVE  webhook' \in [Numbers -> Webhooks]
<1>1. PICK n \in Numbers :
         webhook' = [webhook EXCEPT ![n] =
              [at |-> "waiting", user |-> u, event |-> event,
               requested |-> requested, chosen |-> requested]]
  BY DEF Send
<1>2. [at |-> "waiting", user |-> u, event |-> event,
       requested |-> requested, chosen |-> requested] \in Webhooks
  BY DEF Webhooks
<1> QED
  BY <1>1, <1>2 DEF BillingTypeOK

LEMMA BillingTypeStep == BillingTypeOK /\ [BillingNext]_billVars => BillingTypeOK'
<1> SUFFICES ASSUME BillingTypeOK, [BillingNext]_billVars PROVE BillingTypeOK'
  OBVIOUS
<1>1. CASE UNCHANGED billVars
  BY <1>1 DEF billVars, rowVars, BillingTypeOK
<1>2. ASSUME NEW u \in Customers, NEW v \in Variants, BuySubscription(u, v)
      PROVE  BillingTypeOK'
  BY <1>2, SendType DEF BuySubscription, rowVars, BillingTypeOK
<1>3. ASSUME NEW u \in Customers, CancelSubscription(u) PROVE BillingTypeOK'
  BY <1>3, SendType DEF CancelSubscription, rowVars, BillingTypeOK, Variants
<1>4. ASSUME NEW n \in Numbers, HandleLemonSqueezy(n) PROVE BillingTypeOK'
  <2>1. webhook[n].at # "unsent"
    BY <1>4 DEF HandleLemonSqueezy, Lookup, ChangePlan, Link, CountSeats, Tag, TagFails,
                Unanswered, Answer, HookAt
  <2>2. webhook[n].user \in Customers
    BY <2>1, SentType
  <2>3. webhook' \in [Numbers -> Webhooks]
    <3>1. CASE CountSeats(n)
      <4>1. CASE webhook[n].requested = "founder"
        BY <2>1, <3>1, <4>1, GotoType DEF CountSeats, Variants
      <4>2. CASE webhook[n].requested # "founder"
        BY <2>1, <3>1, <4>2, GotoType DEF CountSeats, Variants
      <4> QED
        BY <4>1, <4>2
    <3>2. CASE Unanswered(n)
      BY <2>1, <3>2, GotoType, SentType DEF Unanswered
    <3>3. CASE ~CountSeats(n) /\ ~Unanswered(n)
      <4>1. \E place \in {"plan", "lock", "link", "answer", "done"} : HookGoto(n, place)
        BY <1>4, <3>3 DEF HandleLemonSqueezy, Lookup, ChangePlan, Link, Tag, TagFails, Answer
      <4> QED
        BY <2>1, <4>1, GotoType DEF Variants
    <3> QED
      BY <3>1, <3>2, <3>3
  <2>4. seatLock' \in Numbers \cup {NoHook}
    BY <1>4 DEF HandleLemonSqueezy, Lookup, ChangePlan, Link, CountSeats, Tag, TagFails,
                Unanswered, Answer, AcquireFounderCapLock, Unlocked, BillingTypeOK
  <2>5. billFailures' \in 0..MaxBillFailures
    BY <1>4, BillFailuresAssumption
       DEF HandleLemonSqueezy, Lookup, ChangePlan, Link, CountSeats, Tag, TagFails,
           Unanswered, Answer, BillFails, BillingTypeOK
  <2>6. muddled' \subseteq Customers
    BY <1>4, <2>2 DEF HandleLemonSqueezy, Lookup, ChangePlan, Link, CountSeats, Tag, TagFails,
                      Unanswered, Answer, BillingTypeOK
  <2>7. subscription' = subscription
    BY <1>4 DEF HandleLemonSqueezy, Lookup, ChangePlan, Link, CountSeats, Tag, TagFails,
                Unanswered, Answer
  <2>8. /\ plan' \in [Customers -> {"free", "pro"}]
        /\ linked' \in [Customers -> BOOLEAN]
        /\ variant' \in [Customers -> Variants \cup {"none"}]
        /\ tagged' \subseteq Customers
    <3>1. CASE ChangePlan(n)
      BY <2>2, <3>1 DEF ChangePlan, UpdateUserPlan, BillingTypeOK
    <3>2. CASE Link(n)
      BY <2>2, <3>2 DEF Link, UpdateLemonSqueezy, BillingTypeOK
    <3>3. CASE Tag(n)
      BY <2>1, <2>2, <3>3, SentType DEF Tag, SetSubscriptionVariant, BillingTypeOK
    <3>4. CASE UNCHANGED rowVars
      BY <3>4 DEF rowVars, BillingTypeOK
    <3> QED
      BY <1>4, <3>1, <3>2, <3>3, <3>4
         DEF HandleLemonSqueezy, Lookup, CountSeats, TagFails, Unanswered, Answer
  <2> QED
    BY <2>3, <2>4, <2>5, <2>6, <2>7, <2>8 DEF BillingTypeOK
<1> QED
  BY <1>1, <1>2, <1>3, <1>4 DEF BillingNext

-----------------------------------------------------------------------------
(* Billing: seats                                                            *)

Seated == Founders \cap tagged

(* A handler that is about to tag a founder holds the lock, and there is a   *)
(* seat left for it: founders who came back since it counted carry an old    *)
(* tag and take no seat of Seated.                                           *)
SeatsInv ==
    /\ Cardinality(Seated) <= FounderCap
    /\ \A n \in Numbers :
          webhook[n].at # "unsent" /\ webhook[n].requested = "retail"
          => webhook[n].chosen = "retail"
    /\ \A n \in Numbers :
          webhook[n].at = "set" /\ webhook[n].chosen = "founder"
          => seatLock = n /\ Cardinality(Seated) < FounderCap

LEMMA SeatedFinite ==
  /\ IsFiniteSet(Seated) /\ Cardinality(Seated) \in Nat
  /\ IsFiniteSet(Founders) /\ Cardinality(Founders) \in Nat
  /\ Cardinality(Seated) <= Cardinality(Founders)
<1>1. Founders \subseteq Customers /\ Seated \subseteq Founders
  BY DEF Founders, Seated
<1> QED
  BY <1>1, CustomersAssumption, FS_Subset, FS_CardinalityType

\* Fewer seated customers take fewer seats.
LEMMA FewerSeated ==
  ASSUME Seated' \subseteq Seated
  PROVE  Cardinality(Seated') \in Nat /\ Cardinality(Seated') <= Cardinality(Seated)
BY SeatedFinite, FS_Subset, FS_CardinalityType

LEMMA SeatsInit == BillingInit => SeatsInv
<1> SUFFICES ASSUME BillingInit PROVE SeatsInv
  OBVIOUS
<1>1. PICK F \in SUBSET Customers : Cardinality(F) <= FounderCap /\ tagged = F
  BY DEF BillingInit
<1>2. Seated \subseteq F /\ IsFiniteSet(F)
  BY <1>1, CustomersAssumption, FS_Subset DEF Seated
<1>3. Cardinality(Seated) <= FounderCap
  BY <1>1, <1>2, CapAssumption, FS_Subset, FS_CardinalityType
<1> QED
  BY <1>3 DEF BillingInit, SeatsInv, Unsent

\* Steps that seat nobody, and leave the lock and the other webhooks alone.
LEMMA NobodySeated ==
  ASSUME BillingTypeOK, SeatsInv, NEW n \in Numbers, webhook[n].at # "unsent",
         Seated' \subseteq Seated,
         \A m \in Numbers : m # n => webhook'[m] = webhook[m],
         webhook'[n].at # "set" \/ webhook'[n].chosen # "founder",
         webhook'[n].requested = webhook[n].requested,
         webhook'[n].chosen \in {webhook[n].chosen, webhook[n].requested},
         seatLock' \in {seatLock, Unlocked(n)}
  PROVE  SeatsInv'
<1>1. Cardinality(Seated') \in Nat /\ Cardinality(Seated') <= Cardinality(Seated)
  BY FewerSeated
<1>2. Cardinality(Seated') <= FounderCap
  BY <1>1, SeatedFinite, CapAssumption DEF SeatsInv
<1>3. ASSUME NEW m \in Numbers, webhook'[m].at = "set", webhook'[m].chosen = "founder"
      PROVE  seatLock' = m /\ Cardinality(Seated') < FounderCap
  <2>1. m # n /\ seatLock = m /\ Cardinality(Seated) < FounderCap
    BY <1>3 DEF SeatsInv
  <2>2. seatLock' = m
    BY <2>1 DEF Unlocked
  <2> QED
    BY <1>1, <2>1, <2>2, SeatedFinite, CapAssumption
<1>4. ASSUME NEW m \in Numbers, webhook'[m].at # "unsent", webhook'[m].requested = "retail"
      PROVE  webhook'[m].chosen = "retail"
  BY <1>4 DEF SeatsInv
<1> QED
  BY <1>2, <1>3, <1>4 DEF SeatsInv

LEMMA SeatsStep == BillingTypeOK /\ SeatsInv /\ [BillingNext]_billVars => SeatsInv'
<1> SUFFICES ASSUME BillingTypeOK, SeatsInv, [BillingNext]_billVars PROVE SeatsInv'
  OBVIOUS
<1>1. CASE UNCHANGED billVars
  BY <1>1 DEF billVars, rowVars, SeatsInv, Seated, Founders
<1>2. ASSUME NEW u \in Customers, NEW event, NEW requested \in Variants,
             Send(u, event, requested), UNCHANGED <<rowVars, seatLock>>
      PROVE  SeatsInv'
  <2>1. PICK n \in Numbers :
          /\ webhook[n] = Unsent
          /\ webhook' = [webhook EXCEPT ![n] =
               [at |-> "waiting", user |-> u, event |-> event,
                requested |-> requested, chosen |-> requested]]
    BY <1>2 DEF Send
  <2>2. Seated' = Seated
    BY <1>2 DEF rowVars, Seated, Founders
  <2>3. \A m \in Numbers : m # n => webhook'[m] = webhook[m]
    BY <2>1 DEF BillingTypeOK
  <2>4. webhook'[n].at = "waiting" /\ webhook'[n].requested = webhook'[n].chosen
    BY <2>1 DEF BillingTypeOK
  <2> QED
    BY <1>2, <2>2, <2>3, <2>4 DEF SeatsInv
<1>3. ASSUME NEW u \in Customers, NEW v \in Variants, BuySubscription(u, v) PROVE SeatsInv'
  BY <1>2, <1>3 DEF BuySubscription
<1>4. ASSUME NEW u \in Customers, CancelSubscription(u) PROVE SeatsInv'
  BY <1>2, <1>4 DEF CancelSubscription, Variants
<1>5. ASSUME NEW n \in Numbers, HandleLemonSqueezy(n) PROVE SeatsInv'
  <2>1. webhook[n].at # "unsent"
    BY <1>5 DEF HandleLemonSqueezy, Lookup, ChangePlan, Link, CountSeats, Tag, TagFails,
                Unanswered, Answer, HookAt
  <2>2. ASSUME NEW place, HookGoto(n, place)
        PROVE  /\ \A m \in Numbers : m # n => webhook'[m] = webhook[m]
               /\ webhook'[n].at = place
               /\ webhook'[n].requested = webhook[n].requested
               /\ webhook'[n].chosen = webhook[n].chosen
    BY <2>1, <2>2, SentType DEF HookGoto, BillingTypeOK
  <2>3. UNCHANGED rowVars => Seated' = Seated
    BY DEF rowVars, Seated, Founders
  <2>4. CASE Lookup(n) \/ TagFails(n) \/ Answer(n)
    <3>1. PICK place \in {"plan", "done", "answer"} : HookGoto(n, place)
      BY <2>4 DEF Lookup, TagFails, Answer
    <3>2. UNCHANGED rowVars /\ seatLock' \in {seatLock, Unlocked(n)}
      BY <2>4 DEF Lookup, TagFails, Answer
    <3> QED
      BY <2>1, <2>2, <2>3, <3>1, <3>2, NobodySeated
  <2>5. CASE Unanswered(n)
    <3>1. /\ \A m \in Numbers : m # n => webhook'[m] = webhook[m]
          /\ webhook'[n].at = "waiting"
          /\ webhook'[n].requested = webhook[n].requested
          /\ webhook'[n].chosen = webhook[n].requested
      BY <2>1, <2>5, SentType DEF Unanswered, BillingTypeOK
    <3> QED
      BY <2>1, <2>3, <2>5, <3>1, NobodySeated DEF Unanswered
  <2>6. CASE ChangePlan(n)
    \* Who becomes pro loses the tag; who was pro has a seat already.
    <3>1. PICK place \in {"link", "answer"} : HookGoto(n, place)
      BY <2>6 DEF ChangePlan
    <3>2. webhook[n].user \in Customers
      BY <2>1, SentType
    <3>3. Seated' \subseteq Seated
      BY <2>6, <3>2 DEF ChangePlan, UpdateUserPlan, Seated, Founders, BillingTypeOK
    <3> QED
      BY <2>1, <2>2, <2>6, <3>1, <3>3, NobodySeated DEF ChangePlan
  <2>7. CASE Link(n)
    <3>1. HookGoto(n, "lock") /\ Seated' = Seated /\ seatLock' = seatLock
      BY <2>7 DEF Link, Seated, Founders
    <3> QED
      BY <2>1, <2>2, <3>1, NobodySeated
  <2>8. CASE CountSeats(n)
    <3>1. Seated' = Seated
      BY <2>3, <2>8 DEF CountSeats
    <3>2. CASE webhook[n].requested # "founder"
      <4>1. HookGoto(n, "set") /\ seatLock' = seatLock
        BY <2>8, <3>2 DEF CountSeats
      <4>2. webhook[n].chosen = "retail"
        BY <2>1, <3>2, SentType DEF SeatsInv, Variants
      <4> QED
        BY <2>1, <2>2, <3>1, <4>1, <4>2, NobodySeated
    <3>3. CASE webhook[n].requested = "founder"
      <4>1. /\ \A m \in Numbers : m # n => webhook'[m] = webhook[m]
            /\ webhook'[n].requested = "founder"
            /\ webhook'[n].chosen = IF Cardinality(Founders) >= FounderCap
                                    THEN "retail" ELSE "founder"
        BY <2>1, <2>8, <3>3, SentType
           DEF CountSeats, CountActiveFounderSubscriptions, BillingTypeOK
      <4>2. seatLock = NoHook /\ seatLock' = n
        BY <2>8, <3>3 DEF CountSeats, AcquireFounderCapLock
      \* Nobody else can be about to tag a founder.
      <4>3. \A m \in Numbers : ~(webhook[m].at = "set" /\ webhook[m].chosen = "founder")
        BY <4>2, WebhooksAssumption DEF SeatsInv, Numbers
      <4>4. webhook'[n].chosen = "founder" => Cardinality(Seated) < FounderCap
        BY <4>1, SeatedFinite, CapAssumption
      <4> QED
        BY <3>1, <4>1, <4>2, <4>3, <4>4 DEF SeatsInv
    <3> QED
      BY <3>2, <3>3
  <2>9. CASE Tag(n)
    <3> DEFINE u == webhook[n].user
    <3>1. u \in Customers /\ webhook[n].chosen \in Variants
      BY <2>1, SentType
    <3>2. HookGoto(n, "answer") /\ seatLock' = Unlocked(n)
      BY <2>9 DEF Tag
    <3>3. CASE webhook[n].chosen # "founder"
      <4>1. Seated' \subseteq Seated
        BY <2>9, <3>1, <3>3 DEF Tag, SetSubscriptionVariant, Seated, Founders, BillingTypeOK, Variants
      <4> QED
        BY <2>1, <2>2, <3>2, <4>1, NobodySeated
    <3>4. CASE webhook[n].chosen = "founder"
      <4>1. seatLock = n /\ Cardinality(Seated) < FounderCap
        BY <2>9, <3>4 DEF Tag, HookAt, SeatsInv
      <4>2. Seated' \subseteq Seated \cup {u}
        BY <2>9, <3>1 DEF Tag, SetSubscriptionVariant, Seated, Founders, BillingTypeOK
      <4>3. IsFiniteSet(Seated \cup {u}) /\ Cardinality(Seated \cup {u}) <= Cardinality(Seated) + 1
        <5>1. IsFiniteSet(Seated)
          BY SeatedFinite
        <5>2. /\ IsFiniteSet(Seated \cup {u})
              /\ Cardinality(Seated \cup {u}) =
                   IF u \in Seated THEN Cardinality(Seated) ELSE Cardinality(Seated) + 1
          BY <5>1, FS_AddElement
        <5> QED
          BY <5>2, SeatedFinite
      <4>4. Cardinality(Seated') \in Nat /\ Cardinality(Seated') <= Cardinality(Seated \cup {u})
        BY <4>2, <4>3, FS_Subset, FS_CardinalityType
      <4>5. Cardinality(Seated') <= FounderCap
        BY <4>1, <4>3, <4>4, SeatedFinite, CapAssumption, FS_CardinalityType
      \* The others do not hold the lock.
      <4>6. \A m \in Numbers : m # n =>
               ~(webhook[m].at = "set" /\ webhook[m].chosen = "founder")
        BY <4>1 DEF SeatsInv
      <4> QED
        BY <2>1, <2>2, <3>2, <4>5, <4>6 DEF SeatsInv
    <3> QED
      BY <3>3, <3>4
  <2> QED
    BY <1>5, <2>4, <2>5, <2>6, <2>7, <2>8, <2>9 DEF HandleLemonSqueezy
<1> QED
  BY <1>1, <1>3, <1>4, <1>5 DEF BillingNext

(* TagFromWebhook never sells a seat too many (billing.go:44-90): for any    *)
(* number of customers, seats and webhooks, in whatever order they arrive,   *)
(* fail and are sent again, the founders exceed the cap by no more than      *)
(* those among them who came back with the tag of an earlier subscription.   *)
THEOREM OversoldOnlyByReturnsAlways == BillingSpec => []OversoldOnlyByReturns
<1>1. BillingInit => BillingTypeOK /\ SeatsInv
  BY BillingTypeInit, SeatsInit
<1>2. BillingTypeOK /\ SeatsInv /\ [BillingNext]_billVars => (BillingTypeOK /\ SeatsInv)'
  BY BillingTypeStep, SeatsStep
<1>3. SeatsInv => OversoldOnlyByReturns
  <2> SUFFICES ASSUME SeatsInv PROVE OversoldOnlyByReturns
    OBVIOUS
  <2>1. Cardinality(Founders \ tagged) = Cardinality(Founders) - Cardinality(Founders \cap tagged)
    BY SeatedFinite, FS_Difference
  <2>2. Cardinality(Founders) \in Nat /\ Cardinality(Seated) \in Nat
    BY SeatedFinite
  <2>3. Cardinality(Seated) <= FounderCap /\ FounderCap \in Nat
    BY CapAssumption DEF SeatsInv
  <2> QED BY <2>1, <2>2, <2>3 DEF OversoldOnlyByReturns, Seated
<1> QED
  BY <1>1, <1>2, <1>3, PTL DEF BillingSpec
-----------------------------------------------------------------------------
(* Billing: plans                                                            *)

OfUser(n, u) == webhook[n].at # "unsent" /\ webhook[n].user = u
Applied == {"link", "lock", "set", "answer", "done"}
Latest(n, u) == OfUser(n, u) /\ \A m \in Numbers : m > n => ~OfUser(m, u)

(* How the first webhook of a customer finds him.                            *)
AsFound(u) == /\ plan[u] = "pro" <=> subscription[u] = "active"
              /\ plan[u] = "pro" => linked[u]

(* Webhooks are sent in the order of their numbers, and the last one of a    *)
(* customer tells the state of his subscription.                             *)
SentInOrder ==
    /\ \A m, n \in Numbers : m < n /\ webhook[m].at = "unsent" => webhook[n].at = "unsent"
    /\ \A u \in Customers :
          \/ AsFound(u) /\ \A n \in Numbers : ~OfUser(n, u)
          \/ \E n \in Numbers : Latest(n, u) /\ subscription[u] = webhook[n].event

(* A handler past its ChangePlan found the older events of its customer      *)
(* done, or muddled him, so that nobody changes the plan of the last one.    *)
AppliedInOrder ==
    \A n \in Numbers, u \in Customers :
        u \notin muddled /\ OfUser(n, u) /\ webhook[n].at \in Applied =>
            /\ \A m \in Numbers : m < n /\ OfUser(m, u) => webhook[m].at = "done"
            /\ webhook[n].event = "active" /\ webhook[n].at # "link" => linked[u]
            /\ Latest(n, u) => plan[u] = IF webhook[n].event = "active" THEN "pro" ELSE "free"

LEMMA PlansInit == BillingInit => SentInOrder /\ AppliedInOrder
<1> SUFFICES ASSUME BillingInit PROVE SentInOrder /\ AppliedInOrder
  OBVIOUS
<1>1. PICK F \in SUBSET Customers :
        /\ subscription = [u \in Customers |-> IF u \in F THEN "active" ELSE "none"]
        /\ plan = [u \in Customers |-> IF u \in F THEN "pro" ELSE "free"]
        /\ linked = [u \in Customers |-> u \in F]
  BY DEF BillingInit
<1>2. \A u \in Customers : linked[u] <=> u \in F
  BY <1>1, Zenon
<1>3. \A u \in Customers : AsFound(u)
  BY <1>1, <1>2 DEF AsFound
<1>4. \A n \in Numbers : webhook[n].at = "unsent"
  BY DEF BillingInit, Unsent
<1> QED
  BY <1>3, <1>4 DEF SentInOrder, AppliedInOrder, OfUser

\* A webhook goes on and stays what it is.
LEMMA HookMoves ==
  ASSUME BillingTypeOK, NEW n \in Numbers, HandleLemonSqueezy(n)
  PROVE  /\ webhook[n].at \notin {"unsent", "done"} /\ webhook'[n].at # "unsent"
         /\ webhook'[n].user = webhook[n].user /\ webhook'[n].event = webhook[n].event
         /\ webhook[n].user \in Customers /\ webhook[n].event \in {"active", "cancelled"}
         /\ \A m \in Numbers : m # n => webhook'[m] = webhook[m]
         /\ UNCHANGED subscription /\ muddled \subseteq muddled'
<1>1. webhook[n].at \notin {"unsent", "done"} /\ UNCHANGED subscription /\ muddled \subseteq muddled'
  BY DEF HandleLemonSqueezy, Lookup, ChangePlan, Link, CountSeats, Tag, TagFails, Unanswered,
         Answer, HookAt
<1>2. \E place \in {"waiting", "plan", "link", "lock", "set", "answer", "done"}, v \in Variants :
         webhook' = [webhook EXCEPT ![n].at = place, ![n].chosen = v] \/ HookGoto(n, place)
  <2>1. CASE CountSeats(n)
    BY <2>1 DEF CountSeats, Variants
  <2>2. CASE Unanswered(n)
    BY <1>1, <2>2, SentType DEF Unanswered
  <2>3. CASE ~CountSeats(n) /\ ~Unanswered(n)
    BY <2>3 DEF HandleLemonSqueezy, Lookup, ChangePlan, Link, Tag, TagFails, Answer, Variants
  <2> QED BY <2>1, <2>2, <2>3
<1>3. /\ webhook'[n].at # "unsent" /\ webhook'[n].user = webhook[n].user
      /\ webhook'[n].event = webhook[n].event
      /\ \A m \in Numbers : m # n => webhook'[m] = webhook[m]
  BY <1>1, <1>2, SentType DEF HookGoto, BillingTypeOK
<1> QED BY <1>1, <1>3, SentType

\* Where the moves of a handler lead, the change of the plan apart.
LEMMA HookApplied ==
  ASSUME BillingTypeOK, NEW n \in Numbers, HandleLemonSqueezy(n), ~ChangePlan(n)
  PROVE  /\ UNCHANGED plan /\ \A u \in Customers : linked[u] => linked'[u]
         /\ webhook'[n].at \in Applied =>
               webhook[n].at \in Applied \/ webhook[n].user \in muddled'
         /\ webhook'[n].at \in Applied /\ webhook'[n].at # "link" =>
               \/ webhook[n].at \in Applied /\ webhook[n].at # "link"
               \/ linked'[webhook[n].user] \/ webhook[n].user \in muddled'
<1>1. webhook[n].at # "unsent" /\ webhook[n].user \in Customers
  BY HookMoves
<1>2. \A place : HookGoto(n, place) => webhook'[n].at = place
  BY <1>1, SentType DEF HookGoto, BillingTypeOK
<1>3. CASE Lookup(n)
  BY <1>2, <1>3 DEF Lookup, rowVars, Applied
<1>4. CASE Link(n)
  <2>1. \A u \in Customers : linked'[u] = IF u = webhook[n].user THEN TRUE ELSE linked[u]
    BY <1>1, <1>4 DEF Link, UpdateLemonSqueezy, BillingTypeOK
  <2>2. UNCHANGED plan /\ webhook[n].at = "link"
    BY <1>4 DEF Link, HookAt
  <2> QED BY <1>1, <2>1, <2>2 DEF Applied
<1>5. CASE CountSeats(n) \/ Tag(n) \/ TagFails(n) \/ Answer(n)
  <2>1. webhook[n].at \in {"lock", "set", "answer"}
    BY <1>5 DEF CountSeats, Tag, TagFails, Answer, HookAt
  <2>2. UNCHANGED <<plan, linked>>
    BY <1>5 DEF CountSeats, Tag, TagFails, Answer, rowVars
  <2> QED BY <2>1, <2>2 DEF Applied
<1>6. CASE Unanswered(n)
  <2>1. webhook'[n].at = "waiting" /\ UNCHANGED <<plan, linked>>
    BY <1>1, <1>6, SentType DEF Unanswered, BillingTypeOK, rowVars
  <2> QED BY <2>1 DEF Applied
<1> QED BY <1>3, <1>4, <1>5, <1>6 DEF HandleLemonSqueezy

LEMMA HookPlans ==
  ASSUME BillingTypeOK, SentInOrder, AppliedInOrder, NEW n \in Numbers, HandleLemonSqueezy(n)
  PROVE  SentInOrder' /\ AppliedInOrder'
<1> DEFINE c == webhook[n].user
<1>1. /\ webhook[n].at \notin {"unsent", "done"} /\ webhook'[n].at # "unsent"
      /\ webhook'[n].user = c /\ webhook'[n].event = webhook[n].event
      /\ c \in Customers /\ webhook[n].event \in {"active", "cancelled"}
      /\ \A m \in Numbers : m # n => webhook'[m] = webhook[m]
      /\ UNCHANGED subscription /\ muddled \subseteq muddled'
  BY HookMoves
<1>2. \A m \in Numbers : /\ webhook'[m].at = "unsent" <=> webhook[m].at = "unsent"
                         /\ webhook'[m].user = webhook[m].user
                         /\ webhook'[m].event = webhook[m].event
                         /\ webhook[m].at = "done" => webhook'[m].at = "done"
                         /\ m # n => webhook'[m].at = webhook[m].at
  BY <1>1
<1> HIDE DEF c
<1>3. /\ \A m \in Numbers, u \in Customers : OfUser(m, u)' <=> OfUser(m, u)
      /\ \A m \in Numbers, u \in Customers : Latest(m, u)' <=> Latest(m, u)
  BY <1>2 DEF OfUser, Latest
<1>4. OfUser(n, c)
  BY <1>1 DEF OfUser, c
<1>5. CASE ChangePlan(n)
  <2> DEFINE active == webhook[n].event = "active"
  <2>1. /\ webhook[n].at = "plan" /\ UNCHANGED linked
        /\ webhook'[n].at = IF active THEN "link" ELSE "answer"
        /\ c \notin muddled' => ~Overtakes(n)
    BY <1>5 DEF ChangePlan, HookAt, HookGoto, BillingTypeOK, c
  <2>2. \A u \in Customers : plan'[u] = IF u = c THEN IF active THEN "pro" ELSE "free" ELSE plan[u]
    BY <1>1, <1>5 DEF ChangePlan, UpdateUserPlan, BillingTypeOK, c
  <2>3. SentInOrder'
    <3>1. ASSUME NEW u \in Customers
          PROVE  \/ AsFound(u)' /\ \A m \in Numbers : ~OfUser(m, u)'
                 \/ \E m \in Numbers : Latest(m, u)' /\ subscription'[u] = webhook'[m].event
      BY <1>1, <1>2, <1>3, <1>4, <2>1, <2>2 DEF SentInOrder, AsFound
    <3> QED BY <1>2, <3>1 DEF SentInOrder
  <2>4. ASSUME NEW m \in Numbers, NEW u \in Customers,
               u \notin muddled', OfUser(m, u), webhook'[m].at \in Applied
        PROVE  /\ \A k \in Numbers : k < m /\ OfUser(k, u) => webhook'[k].at = "done"
               /\ webhook[m].event = "active" /\ webhook'[m].at # "link" => linked'[u]
               /\ Latest(m, u) => plan'[u] = IF webhook[m].event = "active" THEN "pro" ELSE "free"
    <3>1. CASE m = n
      <4>1. u = c /\ ~Overtakes(n)
        BY <2>1, <2>4, <3>1 DEF OfUser, c
      <4>2. \A k \in Numbers : k < m /\ OfUser(k, u) => webhook[k].at = "done"
        BY <3>1, <4>1 DEF Overtakes, Outstanding, OfUser, c
      <4> QED BY <1>2, <2>1, <2>2, <3>1, <4>1, <4>2
    <3>2. CASE m # n
      <4>1. /\ \A k \in Numbers : k < m /\ OfUser(k, u) => webhook[k].at = "done"
            /\ webhook[m].event = "active" /\ webhook[m].at # "link" => linked[u]
            /\ Latest(m, u) => plan[u] = IF webhook[m].event = "active" THEN "pro" ELSE "free"
        BY <1>1, <2>4, <3>2 DEF AppliedInOrder
      <4>2. Latest(m, u) => u # c
        <5>1. ASSUME Latest(m, u), u = c PROVE FALSE
          <6>1. ~(n > m)
            BY <1>4, <5>1 DEF Latest
          <6>2. n < m
            BY <3>2, <6>1 DEF Numbers
          <6> QED BY <1>4, <2>1, <4>1, <5>1, <6>2
        <5> QED BY <5>1
      <4> QED BY <1>2, <2>1, <2>2, <3>2, <4>1, <4>2
    <3> QED BY <3>1, <3>2
  <2> QED BY <1>2, <1>3, <2>3, <2>4 DEF AppliedInOrder
<1>6. CASE ~ChangePlan(n)
  <2>1. /\ UNCHANGED plan /\ \A u \in Customers : linked[u] => linked'[u]
        /\ webhook'[n].at \in Applied => webhook[n].at \in Applied \/ c \in muddled'
        /\ webhook'[n].at \in Applied /\ webhook'[n].at # "link" =>
              \/ webhook[n].at \in Applied /\ webhook[n].at # "link"
              \/ linked'[c] \/ c \in muddled'
    BY <1>6, HookApplied DEF c
  <2>2. SentInOrder'
    <3>1. \A u \in Customers : AsFound(u) => AsFound(u)'
      BY <1>1, <2>1 DEF AsFound
    <3> QED BY <1>1, <1>2, <1>3, <3>1 DEF SentInOrder
  <2>3. ASSUME NEW m \in Numbers, NEW u \in Customers,
               u \notin muddled', OfUser(m, u), webhook'[m].at \in Applied
        PROVE  /\ \A k \in Numbers : k < m /\ OfUser(k, u) => webhook'[k].at = "done"
               /\ webhook[m].event = "active" /\ webhook'[m].at # "link" => linked'[u]
               /\ Latest(m, u) => plan'[u] = IF webhook[m].event = "active" THEN "pro" ELSE "free"
    <3>1. m = n => u = c
      BY <2>3 DEF OfUser, c
    <3>2. webhook[m].at \in Applied
      BY <1>2, <2>1, <2>3, <3>1
    <3>3. /\ \A k \in Numbers : k < m /\ OfUser(k, u) => webhook[k].at = "done"
          /\ webhook[m].event = "active" /\ webhook[m].at # "link" => linked[u]
          /\ Latest(m, u) => plan[u] = IF webhook[m].event = "active" THEN "pro" ELSE "free"
      BY <1>1, <2>3, <3>2 DEF AppliedInOrder
    <3>4. webhook[m].event = "active" /\ webhook'[m].at # "link" => linked'[u]
      BY <1>2, <2>1, <2>3, <3>1, <3>3
    <3> QED BY <1>2, <2>1, <3>3, <3>4
  <2> QED BY <1>2, <1>3, <2>2, <2>3 DEF AppliedInOrder
<1> QED BY <1>5, <1>6

\* A webhook that is sent is the last one of its customer.
LEMMA SendPlans ==
  ASSUME BillingTypeOK, SentInOrder, AppliedInOrder, NEW c \in Customers,
         NEW event \in {"active", "cancelled"}, NEW requested \in Variants,
         Send(c, event, requested), subscription' = [subscription EXCEPT ![c] = event],
         UNCHANGED <<rowVars, muddled>>
  PROVE  SentInOrder' /\ AppliedInOrder'
<1>1. PICK n \in Numbers :
        /\ webhook[n] = Unsent
        /\ \A m \in Numbers : m < n => webhook[m] # Unsent
        /\ webhook' = [webhook EXCEPT ![n] =
              [at |-> "waiting", user |-> c, event |-> event,
               requested |-> requested, chosen |-> requested]]
  BY DEF Send
<1>2. /\ webhook'[n].at = "waiting" /\ webhook'[n].user = c /\ webhook'[n].event = event
      /\ \A m \in Numbers : m # n => webhook'[m] = webhook[m]
      /\ webhook[n].at = "unsent"
  BY <1>1 DEF BillingTypeOK, Unsent
<1>3. \A m \in Numbers : m < n => webhook[m].at # "unsent"
  BY <1>1 DEF BillingTypeOK, Webhooks, Unsent
<1>4. \A m \in Numbers : m > n => webhook[m].at = "unsent"
  BY <1>2 DEF SentInOrder
<1>5. /\ \A m \in Numbers, u \in Customers :
            OfUser(m, u)' <=> IF m = n THEN u = c ELSE OfUser(m, u)
      /\ \A u \in Customers : ~OfUser(n, u)
      /\ \A m \in Numbers, u \in Customers : m > n => ~OfUser(m, u)
  BY <1>2, <1>4 DEF OfUser
<1>6. Latest(n, c)'
  BY <1>5 DEF Latest, Numbers
<1>7. \A m \in Numbers, u \in Customers : m # n /\ u # c => (Latest(m, u)' <=> Latest(m, u))
  BY <1>5 DEF Latest
<1>8. \A m \in Numbers : m # n => ~Latest(m, c)'
  <2>1. ASSUME NEW m \in Numbers, m # n, Latest(m, c)' PROVE FALSE
    <3>1. ~(n > m) /\ OfUser(m, c)
      BY <1>5, <1>6, <2>1 DEF Latest
    <3>2. m > n
      BY <2>1, <3>1 DEF Numbers
    <3> QED BY <1>5, <3>1, <3>2
  <2> QED BY <2>1
<1>9. \A u \in Customers : subscription'[u] = IF u = c THEN event ELSE subscription[u]
  BY DEF BillingTypeOK
<1>10. UNCHANGED <<plan, linked, muddled>>
  BY DEF rowVars
<1>11. SentInOrder'
  <2>1. ASSUME NEW m \in Numbers, NEW k \in Numbers, m < k, webhook'[m].at = "unsent"
        PROVE  webhook'[k].at = "unsent"
    <3>1. m # n /\ webhook[m].at = "unsent" /\ webhook[k].at = "unsent"
      BY <1>2, <2>1 DEF SentInOrder
    <3>2. ~(m < n)
      BY <1>3, <3>1
    <3>3. k # n
      BY <2>1, <3>2
    <3> QED BY <1>2, <3>1, <3>3
  <2>2. ASSUME NEW u \in Customers
        PROVE  \/ AsFound(u)' /\ \A m \in Numbers : ~OfUser(m, u)'
               \/ \E m \in Numbers : Latest(m, u)' /\ subscription'[u] = webhook'[m].event
    <3>1. CASE u = c
      BY <1>2, <1>6, <1>9, <3>1
    <3>2. CASE u # c /\ \A m \in Numbers : ~OfUser(m, u)
      <4>1. \A m \in Numbers : ~Latest(m, u)
        BY <3>2 DEF Latest
      <4>2. AsFound(u)
        BY <3>2, <4>1 DEF SentInOrder
      <4> QED BY <1>5, <1>9, <1>10, <3>2, <4>2 DEF AsFound
    <3>3. CASE u # c /\ \E m \in Numbers : OfUser(m, u)
      <4>1. PICK m \in Numbers : Latest(m, u) /\ subscription[u] = webhook[m].event
        BY <3>3 DEF SentInOrder
      <4>2. m # n
        BY <1>5, <4>1 DEF Latest
      <4> QED BY <1>2, <1>7, <1>9, <3>3, <4>1, <4>2
    <3> QED BY <3>1, <3>2, <3>3
  <2> QED BY <2>1, <2>2 DEF SentInOrder
<1>12. ASSUME NEW m \in Numbers, NEW u \in Customers,
              u \notin muddled, OfUser(m, u)', webhook'[m].at \in Applied
       PROVE  /\ \A k \in Numbers : k < m /\ OfUser(k, u)' => webhook'[k].at = "done"
              /\ webhook'[m].event = "active" /\ webhook'[m].at # "link" => linked[u]
              /\ Latest(m, u)' => plan[u] = IF webhook'[m].event = "active" THEN "pro" ELSE "free"
  <2>1. m # n
    BY <1>2, <1>12 DEF Applied
  <2>2. OfUser(m, u) /\ webhook[m].at \in Applied /\ webhook'[m] = webhook[m]
    BY <1>2, <1>5, <1>12, <2>1
  <2>3. ~(n < m)
    BY <1>4, <2>2 DEF Applied
  <2>4. Latest(m, u)' => Latest(m, u)
    BY <1>7, <1>8, <2>1
  <2>5. \A k \in Numbers : k < m => k # n
    BY <2>3
  <2> QED BY <1>2, <1>5, <1>12, <2>2, <2>4, <2>5 DEF AppliedInOrder
<1> QED BY <1>10, <1>11, <1>12 DEF AppliedInOrder

LEMMA PlansStep ==
  BillingTypeOK /\ SentInOrder /\ AppliedInOrder /\ [BillingNext]_billVars
  => SentInOrder' /\ AppliedInOrder'
<1> SUFFICES ASSUME BillingTypeOK, SentInOrder, AppliedInOrder, [BillingNext]_billVars
             PROVE  SentInOrder' /\ AppliedInOrder'
  OBVIOUS
<1>1. CASE UNCHANGED billVars
  BY <1>1 DEF billVars, rowVars, SentInOrder, AppliedInOrder, OfUser, Latest, AsFound
<1>2. ASSUME NEW u \in Customers, NEW v \in Variants, BuySubscription(u, v)
      PROVE  SentInOrder' /\ AppliedInOrder'
  BY <1>2, SendPlans DEF BuySubscription
<1>3. ASSUME NEW u \in Customers, CancelSubscription(u) PROVE SentInOrder' /\ AppliedInOrder'
  <2>1. "retail" \in Variants
    BY DEF Variants
  <2> QED BY <1>3, <2>1, SendPlans DEF CancelSubscription
<1>4. ASSUME NEW n \in Numbers, HandleLemonSqueezy(n) PROVE SentInOrder' /\ AppliedInOrder'
  BY <1>4, HookPlans
<1> QED BY <1>1, <1>2, <1>3, <1>4 DEF BillingNext

\* With nothing under way a user is pro exactly while his subscription is active,
\* unless an event of his was dropped or overtaken: for any number of customers
\* and webhooks, however they race, fail and are sent again.
THEOREM PlanFollowsSubscriptionAlways == BillingSpec => []PlanFollowsSubscription
<1>1. BillingInit => BillingTypeOK /\ SentInOrder /\ AppliedInOrder
  BY BillingTypeInit, PlansInit
<1>2. BillingTypeOK /\ SentInOrder /\ AppliedInOrder /\ [BillingNext]_billVars
        => (BillingTypeOK /\ SentInOrder /\ AppliedInOrder)'
  BY BillingTypeStep, PlansStep
<1>3. BillingTypeOK /\ SentInOrder /\ AppliedInOrder => PlanFollowsSubscription
  <2> SUFFICES ASSUME BillingTypeOK, SentInOrder, AppliedInOrder, NEW u \in Customers, u \notin muddled,
                      \A n \in Numbers : Outstanding(n) => webhook[n].user # u
               PROVE  (plan[u] = "pro" <=> subscription[u] = "active") /\ (plan[u] = "pro" => linked[u])
    BY DEF PlanFollowsSubscription
  <2>1. CASE AsFound(u)
    BY <2>1 DEF AsFound
  <2>2. CASE \E n \in Numbers : Latest(n, u) /\ subscription[u] = webhook[n].event
    <3>1. PICK n \in Numbers : Latest(n, u) /\ subscription[u] = webhook[n].event
      BY <2>2
    <3>2. OfUser(n, u) /\ webhook[n].at = "done"
      BY <3>1 DEF Latest, OfUser, Outstanding
    <3>3. /\ webhook[n].event = "active" => linked[u]
          /\ plan[u] = IF webhook[n].event = "active" THEN "pro" ELSE "free"
      BY <3>1, <3>2 DEF AppliedInOrder, Applied
    <3> QED BY <3>1, <3>3
  <2> QED BY <2>1, <2>2 DEF SentInOrder
<1> QED BY <1>1, <1>2, <1>3, PTL DEF BillingSpec

-----------------------------------------------------------------------------
(* Monitor limits: types                                                     *)

(* The requests that have counted and not yet inserted.                      *)
Between == {r \in Creators : creating[r].at = "insert"}

(* What CheckLimit sees of them after its step.                              *)
BetweenNext == {q \in Creators : creating'[q].at = "insert"}

LEMMA BetweenFinite == IsFiniteSet(Between) /\ Cardinality(Between) \in Nat
                       /\ Cardinality(Between) <= Cardinality(Creators)
                       /\ Cardinality(Creators) \in Nat
<1>1. Between \subseteq Creators
  BY DEF Between
<1> QED
  BY <1>1, CreatorsAssumption, FS_Subset, FS_CardinalityType

LEMMA BetweenNextFinite == Cardinality(BetweenNext) \in 0..Cardinality(Creators)
<1>1. BetweenNext \subseteq Creators
  BY DEF BetweenNext
<1> QED
  BY <1>1, CreatorsAssumption, FS_Subset, FS_CardinalityType

\* A request that passes the limit is one more in between.
LEMMA Joins ==
  ASSUME QuotaTypeOK, NEW r \in Creators, CreatorAt(r, "count"), CreatorGoto(r, "insert")
  PROVE  Cardinality(Between') = Cardinality(Between) + 1
<1>1. Between' = Between \cup {r} /\ r \notin Between
  BY DEF QuotaTypeOK, Between, CreatorAt, CreatorGoto
<1> QED
  BY <1>1, BetweenFinite, FS_AddElement

\* A request that inserts or fails is one less in between.
LEMMA Leaves ==
  ASSUME QuotaTypeOK, NEW r \in Creators, CreatorAt(r, "insert"),
         NEW place \in {"idle", "publish"}, CreatorGoto(r, place)
  PROVE  Cardinality(Between') = Cardinality(Between) - 1
<1>1. Between' = Between \ {r} /\ r \in Between
  BY DEF QuotaTypeOK, Between, CreatorAt, CreatorGoto
<1> QED
  BY <1>1, BetweenFinite, FS_RemoveElement

LEMMA QuotaTypeInit == QuotaInit => QuotaTypeOK
BY LimitAssumption, CreatorsAssumption, FS_CardinalityType DEF QuotaInit, QuotaTypeOK

LEMMA QuotaTypeStep == QuotaTypeOK /\ [QuotaNext]_quotaVars => QuotaTypeOK'
<1> SUFFICES ASSUME QuotaTypeOK, [QuotaNext]_quotaVars PROVE QuotaTypeOK'
  OBVIOUS
<1> USE DEF QuotaTypeOK, CreatorGoto
<1>1. CASE UNCHANGED quotaVars
  BY <1>1 DEF quotaVars
<1>2. ASSUME NEW r \in Creators, BeginCreate(r) PROVE QuotaTypeOK'
  BY <1>2 DEF BeginCreate
<1>3. ASSUME NEW r \in Creators, CheckLimit(r) PROVE QuotaTypeOK'
  <2>1. crowd' = IF Cardinality(BetweenNext) > crowd THEN Cardinality(BetweenNext) ELSE crowd
    BY <1>3 DEF CheckLimit, BetweenNext
  <2>2. crowd' \in 0..Cardinality(Creators)
    BY <2>1, BetweenNextFinite
  <2> QED
    BY <1>3, <2>2 DEF CheckLimit
<1>4. ASSUME NEW r \in Creators, InsertMonitor(r) PROVE QuotaTypeOK'
  BY <1>4 DEF InsertMonitor
<1>5. ASSUME NEW r \in Creators, PublishCreated(r) PROVE QuotaTypeOK'
  BY <1>5 DEF PublishCreated
<1>6. CASE DeleteOne
  BY <1>6 DEF DeleteOne
<1>7. ASSUME NEW n \in 1..MaxImported, ImportMonitors(n) PROVE QuotaTypeOK'
  BY <1>7, ImportedAssumption DEF ImportMonitors
<1>8. CASE UserPlanChanges
  BY <1>8, LimitAssumption DEF UserPlanChanges
<1> QED
  BY <1>1, <1>2, <1>3, <1>4, <1>5, <1>6, <1>7, <1>8 DEF QuotaNext

-----------------------------------------------------------------------------
(* Monitor limits: what requests may add beyond the limit                    *)

(* How far the requests that counted together may exceed the limit.          *)
Excess == IF crowd = 0 THEN 0 ELSE crowd - 1

(* OwnedWithinLimit counts what is inserted; to be kept by an insert it must *)
(* count the requests in between as well, and every plan a request was       *)
(* loaded with must be within the highest limit.                             *)
QuotaInv ==
    /\ MonitorLimit[userPlan] <= highest
    /\ \A r \in Creators : MonitorLimit[creating[r].as] <= highest
    /\ Cardinality(Between) <= crowd
    /\ owned + Cardinality(Between) <= imported + highest + Excess

LEMMA QuotaInvInit == QuotaInit => QuotaInv
<1> SUFFICES ASSUME QuotaInit PROVE QuotaInv
  OBVIOUS
<1>1. Between = {}
  BY DEF QuotaInit, Between
<1> QED
  BY <1>1, LimitAssumption, FS_EmptySet DEF QuotaInit, QuotaInv, Excess

LEMMA QuotaInvStep == QuotaTypeOK /\ QuotaInv /\ [QuotaNext]_quotaVars => QuotaInv'
<1> SUFFICES ASSUME QuotaTypeOK, QuotaInv, [QuotaNext]_quotaVars PROVE QuotaInv'
  OBVIOUS
<1>a. QuotaTypeOK'
  BY QuotaTypeStep
<1>b. Cardinality(Between) \in Nat
  BY BetweenFinite
<1>c. MonitorLimit["free"] \in Nat /\ MonitorLimit["pro"] \in Nat
  BY LimitAssumption
<1>1. CASE UNCHANGED quotaVars
  BY <1>1 DEF quotaVars, QuotaInv, Between, Excess
<1>2. ASSUME NEW r \in Creators, BeginCreate(r) PROVE QuotaInv'
  <2>1. Between' = Between
    BY <1>2 DEF BeginCreate, CreatorAt, Between, QuotaTypeOK
  <2>2. \A q \in Creators : MonitorLimit[creating'[q].as] <= highest
    BY <1>2 DEF BeginCreate, QuotaInv, QuotaTypeOK
  <2> QED
    BY <1>2, <2>1, <2>2 DEF BeginCreate, QuotaInv, Excess
<1>3. ASSUME NEW r \in Creators, CheckLimit(r) PROVE QuotaInv'
  <2>1. BetweenNext = Between'
    BY DEF BetweenNext, Between
  <2>2. crowd' = IF Cardinality(Between') > crowd THEN Cardinality(Between') ELSE crowd
    BY <1>3, <2>1 DEF CheckLimit, BetweenNext
  <2>3. \A q \in Creators : creating'[q].as = creating[q].as
    BY <1>3 DEF CheckLimit, CreatorGoto, QuotaTypeOK
  <2>4. UNCHANGED <<userPlan, owned, imported, highest>>
    BY <1>3 DEF CheckLimit
  <2>5. CASE WithinTier(CountMonitorsByUserID, creating[r].as) /\ CreatorGoto(r, "insert")
    <3>1. Cardinality(Between') = Cardinality(Between) + 1
      BY <1>3, <2>5, Joins DEF CheckLimit
    <3>2. owned < MonitorLimit[creating[r].as] /\ MonitorLimit[creating[r].as] <= highest
      BY <2>5 DEF WithinTier, CountMonitorsByUserID, QuotaInv
    <3>3. owned <= highest - 1
      BY <3>2, <1>c DEF QuotaTypeOK
    <3>4. owned + Cardinality(Between') <= imported + highest + Excess'
      BY <1>a, <1>b, <2>2, <2>4, <3>1, <3>3 DEF QuotaTypeOK, Excess
    <3>5. Cardinality(Between') <= crowd'
      BY <1>a, <1>b, <2>2, <3>1 DEF QuotaTypeOK
    <3> QED
      BY <2>3, <2>4, <3>4, <3>5 DEF QuotaInv
  <2>6. CASE CreatorGoto(r, "idle")
    <3>1. Between' = Between
      BY <1>3, <2>6 DEF CheckLimit, CreatorAt, CreatorGoto, Between, QuotaTypeOK
    <3>2. crowd' = crowd
      BY <1>b, <2>2, <3>1 DEF QuotaInv, QuotaTypeOK
    <3> QED
      BY <2>3, <2>4, <3>1, <3>2 DEF QuotaInv, Excess
  <2> QED
    BY <1>3, <2>5, <2>6 DEF CheckLimit
<1>4. ASSUME NEW r \in Creators, InsertMonitor(r) PROVE QuotaInv'
  <2>1. Cardinality(Between') = Cardinality(Between) - 1
    BY <1>4, Leaves DEF InsertMonitor
  <2>2. owned' \in {owned, owned + 1} /\ UNCHANGED <<userPlan, imported, highest, crowd>>
    BY <1>4 DEF InsertMonitor
  <2>3. \A q \in Creators : creating'[q].as = creating[q].as
    BY <1>4 DEF InsertMonitor, CreatorGoto, QuotaTypeOK
  <2>4. owned' + Cardinality(Between') <= imported + highest + Excess'
    BY <1>a, <1>b, <2>1, <2>2 DEF QuotaInv, QuotaTypeOK, Excess
  <2>5. Cardinality(Between') <= crowd'
    BY <1>b, <2>1, <2>2 DEF QuotaInv, QuotaTypeOK
  <2> QED
    BY <2>2, <2>3, <2>4, <2>5 DEF QuotaInv
<1>5. ASSUME NEW r \in Creators, PublishCreated(r) PROVE QuotaInv'
  <2>1. Between' = Between
    BY <1>5 DEF PublishCreated, CreatorAt, CreatorGoto, Between, QuotaTypeOK
  <2>2. \A q \in Creators : creating'[q].as = creating[q].as
    BY <1>5 DEF PublishCreated, CreatorGoto, QuotaTypeOK
  <2> QED
    BY <1>5, <2>1, <2>2 DEF PublishCreated, QuotaInv, Excess
<1>6. CASE DeleteOne
  <2>1. Between' = Between /\ owned' = owned - 1
        /\ UNCHANGED <<userPlan, creating, imported, highest, crowd>>
    BY <1>6 DEF DeleteOne, Between
  <2> QED
    BY <1>b, <2>1, ImportedAssumption DEF QuotaInv, QuotaTypeOK, Excess
<1>7. ASSUME NEW n \in 1..MaxImported, ImportMonitors(n) PROVE QuotaInv'
  <2>1. Between' = Between /\ owned' = owned + n /\ imported' = imported + n
        /\ UNCHANGED <<userPlan, creating, highest, crowd>>
    BY <1>7, ImportedAssumption DEF ImportMonitors, Between
  <2> QED
    BY <1>b, <2>1, ImportedAssumption DEF QuotaInv, QuotaTypeOK, Excess
<1>8. CASE UserPlanChanges
  <2>1. Between' = Between /\ highest <= highest' /\ MonitorLimit[userPlan'] <= highest'
        /\ UNCHANGED <<owned, creating, imported, crowd>>
    BY <1>8, <1>c DEF UserPlanChanges, Between, QuotaTypeOK
  <2>2. \A q \in Creators : MonitorLimit[creating[q].as] <= highest'
    BY <1>a, <1>c, <2>1 DEF QuotaInv, QuotaTypeOK
  <2> QED
    BY <1>a, <1>b, <2>1, <2>2 DEF QuotaInv, QuotaTypeOK, Excess
<1> QED
  BY <1>1, <1>2, <1>3, <1>4, <1>5, <1>6, <1>7, <1>8 DEF QuotaNext

LEMMA QuotaInvBounds == QuotaTypeOK /\ QuotaInv => OwnedWithinLimit
BY BetweenFinite DEF QuotaTypeOK, QuotaInv, OwnedWithinLimit, Excess

(* However many requests race and whenever the plan changes, a user exceeds  *)
(* the highest limit he had only by what imports brought and by one monitor  *)
(* for each further request that was between count and insert at the same    *)
(* time (CreateMonitor, monitoring.go:300-310).                              *)
THEOREM OwnedWithinLimitAlways == QuotaSpec => []OwnedWithinLimit
<1>1. QuotaInit => QuotaTypeOK /\ QuotaInv
  BY QuotaTypeInit, QuotaInvInit
<1>2. QuotaTypeOK /\ QuotaInv /\ [QuotaNext]_quotaVars => (QuotaTypeOK /\ QuotaInv)'
  BY QuotaTypeStep, QuotaInvStep
<1> QED
  BY <1>1, <1>2, QuotaInvBounds, PTL DEF QuotaSpec

-----------------------------------------------------------------------------
(* Secrets: types                                                            *)

\* What a process writes is a value of a column.
LEMMA EncryptType ==
  ASSUME NEW ring \in Ring, NEW config \in Value
  PROVE  EncryptConfig(ring, config) \in Value
<1>1. CASE ring.keys # {}
  BY <1>1 DEF EncryptConfig, Encrypt, Sealed, Value, Ring
<1>2. CASE ring.keys = {} /\ config.form = "sealed"
  BY <1>2 DEF EncryptConfig, NoOpEncrypt
<1>3. CASE ring.keys = {} /\ config.form # "sealed"
  BY <1>3 DEF EncryptConfig, NoOpEncrypt, As, Value
<1> QED
  BY <1>1, <1>2, <1>3

\* What a process holds is a value of a column.
LEMMA DecryptType ==
  ASSUME NEW ring, NEW value \in Value
  PROVE  DecryptConfig(ring, value) \in Value
BY DEF DecryptConfig, As, Value

LEMMA SecretsTypeStep == SecretsTypeOK /\ [SecretsNext]_secretVars => SecretsTypeOK'
<1> SUFFICES ASSUME SecretsTypeOK, [SecretsNext]_secretVars PROVE SecretsTypeOK'
  OBVIOUS
<1> USE DEF SecretsTypeOK
<1>1. CASE UNCHANGED secretVars
  BY <1>1 DEF secretVars
<1>2. ASSUME NEW p \in Processes, StartProcess(p) PROVE SecretsTypeOK'
  BY <1>2 DEF StartProcess
<1>3. ASSUME NEW p \in Processes, StopProcess(p) PROVE SecretsTypeOK'
  BY <1>3 DEF StopProcess
<1>4. ASSUME NEW p \in Writers, NEW r \in Configs, CreateConfig(p, r) PROVE SecretsTypeOK'
  <2>1. cipher[p] \in Ring
    BY SecretsAssumption
  <2>2. EncryptConfig(cipher[p], As("object")) \in Value
    BY <2>1, EncryptType DEF As, Value
  <2> QED
    BY <1>4, <2>2 DEF CreateConfig
<1>5. ASSUME NEW p \in Writers, NEW r \in Configs, LoadConfig(p, r) PROVE SecretsTypeOK'
  <2>1. [row |-> r, config |-> DecryptConfig(cipher[p], column[r])] \in Held
    BY DecryptType DEF Held
  <2> QED
    BY <1>5, <2>1 DEF LoadConfig
<1>6. ASSUME NEW p \in Writers, NEW q \in held[p], SaveConfig(p, q) PROVE SecretsTypeOK'
  <2>1. cipher[p] \in Ring /\ q \in Held
    BY SecretsAssumption
  <2>2. PICK config \in {q.config, As("object")} :
          column' = [column EXCEPT ![q.row] =
                       IF Row(q.row) THEN EncryptConfig(cipher[p], config) ELSE @]
    BY <1>6 DEF SaveConfig
  <2>3. config \in Value
    BY <2>1 DEF Held, As, Value
  <2>4. EncryptConfig(cipher[p], config) \in Value
    BY <2>1, <2>3, EncryptType
  <2> QED
    BY <1>6, <2>1, <2>2, <2>4 DEF SaveConfig, Held
<1>7. ASSUME NEW p \in Writers, NEW q \in held[p], DeleteConfig(p, q) PROVE SecretsTypeOK'
  <2>1. As("deleted") \in Value
    BY DEF As, Value
  <2> QED
    BY <1>7, <2>1 DEF DeleteConfig
<1>8. ASSUME NEW ring \in Ring, Configure(ring) PROVE SecretsTypeOK'
  BY <1>8 DEF Configure
<1>9. ASSUME NEW v \in Versions, Enable(v) \/ AddKey(v) \/ SetPrimary(v) \/ RetireKey(v)
      PROVE  SecretsTypeOK'
  BY <1>8, <1>9 DEF Enable, AddKey, SetPrimary, RetireKey, Ring
<1> QED
  BY <1>1, <1>2, <1>3, <1>4, <1>5, <1>6, <1>7, <1>9 DEF SecretsNext

LEMMA SecretsTypeInit == SecretsInit => SecretsTypeOK
BY DEF SecretsInit, SecretsTypeOK, NoOpCipher, Ring, As, Value

(* Keys have versions, every cipher is a set of keys with a primary, and a   *)
(* column holds JSON or one ciphertext (crypto.go, NewEncryptor).            *)
THEOREM SecretsTypeCorrect == SecretsSpec => []SecretsTypeOK
BY SecretsTypeInit, SecretsTypeStep, PTL DEF SecretsSpec

-----------------------------------------------------------------------------
(* Secrets: rotation                                                         *)

(* The processes that encrypt.                                               *)
Keyed == {p \in running : cipher[p].keys # {}}

(* Everybody who encrypts can read under key k, and so will whoever starts.  *)
Known(k) == k \in env.keys /\ \A p \in Keyed : k \in cipher[p].keys

(* A key that a row, a process or the environment may use is known; and only *)
(* processes without keys hold ciphertexts, which they would write back.     *)
KeysKnown ==
    /\ env.keys = {} => env = NoOpCipher
    /\ env.keys # {} => Known(env.primary)
    /\ \A p \in Keyed : Known(cipher[p].primary)
    /\ \A r \in Configs : column[r].form = "sealed" => Known(column[r].key)
    /\ \A p \in Writers : held[p] # {} => p \in running
    /\ \A p \in Writers : \A q \in held[p] :
          q.config.form = "sealed" => cipher[p].keys = {} /\ Known(q.config.key)

LEMMA KeysKnownInit == SecretsInit => KeysKnown
BY DEF SecretsInit, KeysKnown, Keyed, Known, NoOpCipher, As

\* A value written by a running process is under a known key.
LEMMA WritesKnown ==
  ASSUME SecretsTypeOK, KeysKnown, NEW p \in running, NEW config \in Value,
         config.form = "sealed" => Known(config.key),
         EncryptConfig(cipher[p], config).form = "sealed"
  PROVE  Known(EncryptConfig(cipher[p], config).key)
<1>1. CASE cipher[p].keys # {}
  BY <1>1 DEF EncryptConfig, Encrypt, Sealed, KeysKnown, Keyed
<1>2. CASE cipher[p].keys = {} /\ config.form = "sealed"
  BY <1>2 DEF EncryptConfig, NoOpEncrypt
<1>3. CASE cipher[p].keys = {} /\ config.form # "sealed"
  BY <1>3 DEF EncryptConfig, NoOpEncrypt, As
<1> QED
  BY <1>1, <1>2, <1>3

LEMMA KeysKnownStep ==
  SecretsTypeOK /\ KeysKnown /\ [SecretsNext]_secretVars => KeysKnown'
<1> SUFFICES ASSUME SecretsTypeOK, KeysKnown, [SecretsNext]_secretVars PROVE KeysKnown'
  OBVIOUS
<1>1. CASE UNCHANGED secretVars
  BY <1>1 DEF secretVars, KeysKnown, Keyed, Known
<1>2. ASSUME NEW p \in Processes, StartProcess(p) PROVE KeysKnown'
  <2>1. running' = running \cup {p} /\ p \notin running /\ UNCHANGED <<env, column, held>>
    BY <1>2 DEF StartProcess
  <2>2. cipher'[p] = env /\ \A q \in running : cipher'[q] = cipher[q]
    BY <1>2, <2>1 DEF StartProcess, SecretsTypeOK
  <2>3. \A k : Known(k) => Known(k)'
    BY <2>1, <2>2 DEF Known, Keyed
  <2>4. \A q \in Keyed' : Known(cipher'[q].primary)
    BY <2>1, <2>2 DEF Keyed, KeysKnown
  <2> QED
    BY <2>1, <2>2, <2>3, <2>4 DEF KeysKnown
<1>3. ASSUME NEW p \in Processes, StopProcess(p) PROVE KeysKnown'
  <2>1. \A k : Known(k) => Known(k)'
    BY <1>3 DEF StopProcess, Known, Keyed
  <2>2. Keyed' \subseteq Keyed
    BY <1>3 DEF StopProcess, Keyed
  <2>3. \A w \in Writers : \A q \in held'[w] : w # p /\ q \in held[w]
    BY <1>3 DEF StopProcess
  <2> QED
    BY <1>3, <2>1, <2>2, <2>3 DEF StopProcess, KeysKnown
<1>4. ASSUME UNCHANGED <<env, running, cipher>>,
             \A r \in Configs : column'[r].form = "sealed" => Known(column'[r].key),
             \A p \in Writers : held'[p] # {} => p \in running,
             \A p \in Writers : \A q \in held'[p] : q.config.form = "sealed" =>
                 cipher[p].keys = {} /\ Known(q.config.key)
      PROVE  KeysKnown'
  BY <1>4 DEF KeysKnown, Known, Keyed
<1>5. ASSUME NEW p \in Writers, NEW r \in Configs, CreateConfig(p, r) PROVE KeysKnown'
  <2>1. LET new == EncryptConfig(cipher[p], As("object")) IN new.form = "sealed" => Known(new.key)
    BY <1>5, WritesKnown DEF CreateConfig, As, Value
  <2>2. ASSUME NEW s \in Configs, column'[s].form = "sealed" PROVE Known(column'[s].key)
    BY <1>5, <2>1, <2>2 DEF CreateConfig, SecretsTypeOK, KeysKnown
  <2> QED
    BY <1>4, <1>5, <2>2 DEF CreateConfig, KeysKnown
<1>6. ASSUME NEW p \in Writers, NEW r \in Configs, LoadConfig(p, r) PROVE KeysKnown'
  <2> DEFINE new == [row |-> r, config |-> DecryptConfig(cipher[p], column[r])]
  <2>1. new.config.form = "sealed" =>
          cipher[p].keys = {} /\ Known(new.config.key)
    BY <1>6 DEF LoadConfig, DecryptConfig, As, KeysKnown
  <2>2. held' = [held EXCEPT ![p] = @ \cup {new}]
    BY <1>6 DEF LoadConfig
  <2>3. ASSUME NEW w \in Writers, NEW q \in held'[w]
        PROVE  q \in held[w] \/ (w = p /\ q = new)
    BY <2>2, <2>3 DEF SecretsTypeOK
  <2> HIDE DEF new
  <2> QED
    BY <1>4, <1>6, <2>1, <2>3 DEF LoadConfig, KeysKnown
<1>7. ASSUME NEW p \in Writers, NEW q \in held[p], SaveConfig(p, q) PROVE KeysKnown'
  <2>1. q \in Held
    BY DEF SecretsTypeOK
  <2>2. PICK config \in {q.config, As("object")} :
          column' = [column EXCEPT ![q.row] =
                       IF Row(q.row) THEN EncryptConfig(cipher[p], config) ELSE @]
    BY <1>7 DEF SaveConfig
  <2>3. CASE config.form = "sealed"
    \* Only a process without keys holds a ciphertext, and writes it back.
    <3>1. config = q.config /\ cipher[p].keys = {} /\ Known(q.config.key)
      BY <2>3 DEF As, KeysKnown
    <3>2. EncryptConfig(cipher[p], config) = config
      BY <2>3, <3>1 DEF EncryptConfig, NoOpEncrypt
    <3>3. ASSUME NEW s \in Configs, column'[s].form = "sealed" PROVE Known(column'[s].key)
      BY <2>1, <2>2, <3>1, <3>2, <3>3 DEF SecretsTypeOK, KeysKnown, Held
    <3> QED
      BY <1>4, <1>7, <3>3 DEF SaveConfig, KeysKnown, SecretsTypeOK
  <2>4. CASE config.form # "sealed"
    <3>1. cipher[p].keys = {} => EncryptConfig(cipher[p], config).form # "sealed"
      BY <2>4 DEF EncryptConfig, NoOpEncrypt, As
    <3>2. cipher[p].keys # {} => EncryptConfig(cipher[p], config) = Sealed(cipher[p].primary)
      BY DEF EncryptConfig, Encrypt
    <3>3. p \in running
      BY DEF KeysKnown
    <3>4. ASSUME NEW s \in Configs, column'[s].form = "sealed" PROVE Known(column'[s].key)
      BY <2>1, <2>2, <3>1, <3>2, <3>3, <3>4 DEF SecretsTypeOK, KeysKnown, Keyed, Held, Sealed
    <3> QED
      BY <1>4, <1>7, <3>4 DEF SaveConfig, KeysKnown, SecretsTypeOK
  <2> QED
    BY <2>3, <2>4
<1>8. ASSUME NEW p \in Writers, NEW q \in held[p], DeleteConfig(p, q) PROVE KeysKnown'
  <2>1. ASSUME NEW s \in Configs, column'[s].form = "sealed" PROVE Known(column'[s].key)
    BY <1>8, <2>1 DEF DeleteConfig, SecretsTypeOK, KeysKnown, As
  <2> QED
    BY <1>4, <1>8, <2>1 DEF DeleteConfig, KeysKnown, SecretsTypeOK
<1>9. ASSUME NEW v \in Versions, Enable(v) PROVE KeysKnown'
  \* Nobody encrypts and nothing is encrypted while the environment has no keys.
  <2>1. env.keys = {} /\ env' = [keys |-> {v}, primary |-> v]
        /\ UNCHANGED <<running, cipher, column, held>>
    BY <1>9 DEF Enable, Configure, NoOpCipher
  <2>2. Keyed = {} /\ \A k : ~Known(k)
    BY <2>1 DEF KeysKnown, Known
  <2> QED
    BY <2>1, <2>2 DEF KeysKnown, Known, Keyed
<1>10. ASSUME NEW v \in Versions, AddKey(v) PROVE KeysKnown'
  <2>1. env.keys # {} /\ env'.keys = env.keys \cup {v} /\ env'.primary = env.primary
        /\ UNCHANGED <<running, cipher, column, held>>
    BY <1>10 DEF AddKey, Configure, KeysKnown, SecretsTypeOK, Ring
  <2>2. \A k : Known(k) => Known(k)'
    BY <2>1 DEF Known, Keyed
  <2> QED
    BY <2>1, <2>2 DEF KeysKnown, Keyed
<1>11. ASSUME NEW v \in Versions, SetPrimary(v) PROVE KeysKnown'
  <2>1. v \in env.keys /\ env'.keys = env.keys /\ env'.primary = v
        /\ UNCHANGED <<running, cipher, column, held>>
    BY <1>11 DEF SetPrimary, Configure, SecretsTypeOK, Ring
  <2>2. Known(v)
    BY <1>11, <2>1 DEF SetPrimary, RolledOut, Known, Keyed
  <2>3. \A k : Known(k) => Known(k)'
    BY <2>1 DEF Known, Keyed
  <2> QED
    BY <2>1, <2>2, <2>3 DEF KeysKnown, Keyed
<1>12. ASSUME NEW v \in Versions, RetireKey(v) PROVE KeysKnown'
  <2>1. v # env.primary /\ env'.keys = env.keys \ {v} /\ env'.primary = env.primary
        /\ UNCHANGED <<running, cipher, column, held>>
    BY <1>12 DEF RetireKey, Configure, SecretsTypeOK, Ring
  <2>2. \A p \in running : cipher[p] = env
    BY <1>12 DEF RetireKey, RolledOut
  <2>3. \A k : k # v /\ Known(k) => Known(k)'
    BY <2>1 DEF Known, Keyed
  <2>4. \A r \in Configs : column[r].form = "sealed" => column[r].key # v
    BY <1>12 DEF RetireKey, Sealed, SecretsTypeOK, Value
  \* Whoever holds a ciphertext has no keys, but everybody has the environment's.
  <2>5. \A p \in Writers : \A q \in held[p] : q.config.form # "sealed"
    BY <2>2 DEF KeysKnown, Known
  <2>6. env.keys = {} => env' = env
    BY <1>12 DEF RetireKey, Configure, SecretsTypeOK, Ring
  <2> QED
    BY <2>1, <2>2, <2>3, <2>4, <2>5, <2>6 DEF KeysKnown, Keyed, Known
<1> QED
  BY <1>1, <1>2, <1>3, <1>5, <1>6, <1>7, <1>8, <1>9, <1>10, <1>11, <1>12 DEF SecretsNext

LEMMA KnownIsRead == KeysKnown => SeamlessRotation
BY DEF KeysKnown, SeamlessRotation, Decrypts, Known, Keyed

(* While keys are added, made primary and retired and processes with old and *)
(* new environments write and read side by side, no process with keys meets  *)
(* a ciphertext it cannot read (crypto.go:27-28).                            *)
THEOREM SeamlessRotationAlways == SecretsSpec => []SeamlessRotation
<1>1. SecretsInit => SecretsTypeOK /\ KeysKnown
  BY SecretsTypeInit, KeysKnownInit
<1>2. SecretsTypeOK /\ KeysKnown /\ [SecretsNext]_secretVars => (SecretsTypeOK /\ KeysKnown)'
  BY SecretsTypeStep, KeysKnownStep
<1> QED
  BY <1>1, <1>2, KnownIsRead, PTL DEF SecretsSpec

-----------------------------------------------------------------------------
(* Access: the route table                                                   *)

\* Paths of the API, by their number of parts.
LEMMA PathOf1 ==
  \A a : Len(Api(<<a>>)) = 2 /\ Api(<<a>>)[1] = "api" /\ Api(<<a>>)[2] = a
BY DEF Api

LEMMA PathOf2 ==
  \A a, b : /\ Len(Api(<<a, b>>)) = 3 /\ Api(<<a, b>>)[1] = "api"
            /\ Api(<<a, b>>)[2] = a /\ Api(<<a, b>>)[3] = b
BY DEF Api

LEMMA PathOf3 ==
  \A a, b, c : /\ Len(Api(<<a, b, c>>)) = 4 /\ Api(<<a, b, c>>)[1] = "api"
               /\ Api(<<a, b, c>>)[2] = a /\ Api(<<a, b, c>>)[4] = c
BY DEF Api

LEMMA PathOf4 ==
  \A a, b, c, d : /\ Len(Api(<<a, b, c, d>>)) = 5 /\ Api(<<a, b, c, d>>)[1] = "api"
                  /\ Api(<<a, b, c, d>>)[2] = a
BY DEF Api

\* strings.HasPrefix, by the parts of the path.
LEMMA UnderPart ==
  ASSUME NEW p, Len(p) \in Nat, Len(p) >= 2, NEW a
  PROVE  Under(p, Api(<<a>>)) <=> p[1] = "api" /\ p[2] = a
<1> DEFINE q == SubSeq(p, 1, 2)
           S == {"api", a, p[1], p[2]}
<1>1. /\ Api(<<a>>) \in Seq(S) /\ Len(Api(<<a>>)) = 2
      /\ Api(<<a>>)[1] = "api" /\ Api(<<a>>)[2] = a
  BY DEF Api
<1>2. q \in Seq(S) /\ Len(q) = 2 /\ q[1] = p[1] /\ q[2] = p[2]
  <2>1. \A i \in 1..2 : p[i] \in S
    OBVIOUS
  <2> HIDE DEF S
  <2> QED BY <2>1, SubSeqProperties
<1>3. q = Api(<<a>>) <=> q[1] = Api(<<a>>)[1] /\ q[2] = Api(<<a>>)[2]
  <2> HIDE DEF q, S
  <2>1. \A i \in 1..2 : i = 1 \/ i = 2
    OBVIOUS
  <2> QED BY <1>1, <1>2, <2>1, SeqEqual
<1> QED BY <1>1, <1>2, <1>3 DEF Under

LEMMA UnderApi ==
  ASSUME NEW p, Len(p) \in Nat, Len(p) >= 2, p[1] = "api"
  PROVE  Under(p, Api(<<>>))
<1> DEFINE q == SubSeq(p, 1, 1)
           S == {"api"}
<1>1. Api(<<>>) = <<"api">> /\ Len(Api(<<>>)) = 1
  BY DEF Api
<1>2. q \in Seq(S) /\ Len(q) = 1 /\ q[1] = p[1]
  <2>1. \A i \in 1..1 : p[i] \in S
    OBVIOUS
  <2> HIDE DEF S
  <2> QED BY <2>1, SubSeqProperties
<1>3. q = <<"api">>
  <2>1. <<"api">> \in Seq(S) /\ Len(<<"api">>) = 1 /\ <<"api">>[1] = "api"
    OBVIOUS
  <2> HIDE DEF q, S
  <2>2. \A i \in 1..1 : i = 1
    OBVIOUS
  <2> QED BY <1>2, <2>1, <2>2, SeqEqual
<1>4. Len(p) >= 1
  OBVIOUS
<1> QED BY <1>1, <1>3, <1>4 DEF Under

ProOps ==
    {"CreateManualIncident", "ChangeIncidentState", "UpdateBranding", "ScheduleMaintenance",
     "DeleteMaintenanceWindow", "Import", "RequestDomain", "DeleteDomain", "ListIncidentsForExport"}

GroupOps == {"CreateMonitorGroup", "UpdateMonitorGroup", "DeleteMonitorGroup", "AssignMonitorGroup"}

\* Where a handler that asks for its user may be.
Asked(h) ==
    /\ h.path[2] \notin {"newsletter", "status", "stats", "billing", "public"}
    /\ h.path[2] = "auth" => Len(h.path) = 3 /\ h.path[3] = "me"
    /\ h.path[2] = "incidents" => h.method # "GET"

\* What is proved of each route: where one is that asks for its user, and that
\* the gate sees one for Pro users in the spelling of the table, groups apart.
RouteOK(h) ==
    /\ h.asks => Len(h.path) \in Nat /\ Len(h.path) >= 2 /\ h.path[1] = "api" /\ Asked(h)
    /\ h.op \in ProOps => IsGated(h.method, h.path)
    /\ h.op \in GroupOps => h \in GroupHandlers

\* The gate's selector, by the number of parts.
LEMMA GateOf1 ==
  \A h : /\ h.method = "POST"
         /\ \/ h.path = Api(<<"incidents">>) \/ h.path = Api(<<"maintenance-windows">>)
            \/ h.path = Api(<<"custom-domains">>)
        => IsGated(h.method, h.path)
BY Zenon DEF IsGated

LEMMA GateOf2 ==
  ASSUME NEW h
  PROVE  /\ h.method = "POST" /\ h.path = Api(<<"import", "atlassian">>) => IsGated(h.method, h.path)
         /\ h.method = "PATCH" /\ h.path = Api(<<"me", "branding">>) => IsGated(h.method, h.path)
         /\ /\ h.method = "DELETE" /\ Len(h.path) = 3 /\ h.path[1] = "api"
            /\ h.path[2] \in {"maintenance-windows", "custom-domains"}
           => IsGated(h.method, h.path)
<1>1. /\ h.method = "POST" /\ h.path = Api(<<"import", "atlassian">>) => IsGated(h.method, h.path)
      /\ h.method = "PATCH" /\ h.path = Api(<<"me", "branding">>) => IsGated(h.method, h.path)
  BY Zenon DEF IsGated
<1>2. ASSUME h.method = "DELETE", Len(h.path) = 3, h.path[1] = "api",
             h.path[2] \in {"maintenance-windows", "custom-domains"}
      PROVE  IsGated(h.method, h.path)
  <2>1. Under(h.path, Api(<<h.path[2]>>))
    BY <1>2, UnderPart
  <2>2. Len(Api(<<h.path[2]>>)) = 2
    BY PathOf1
  <2>3. Below(h.path, Api(<<h.path[2]>>))
    BY <1>2, <2>1, <2>2, 3 > 2 DEF Below
  <2> QED BY <1>2, <2>3, Zenon DEF IsGated
<1> QED BY <1>1, <1>2

LEMMA GateOf3 ==
  ASSUME NEW h, h.method = "PATCH", Len(h.path) = 4, h.path[1] = "api",
         h.path[2] = "incidents", h.path[4] = "state"
  PROVE  IsGated(h.method, h.path)
<1>1. Under(h.path, Api(<<"incidents">>))
  BY UnderPart
<1>2. Len(Api(<<"incidents">>)) = 2
  BY PathOf1
<1>3. Below(h.path, Api(<<"incidents">>)) /\ EndsIn(h.path, "state")
  <2>1. Len(h.path) > Len(Api(<<"incidents">>))
    BY <1>2, 4 > 2, Zenon
  <2>2. EndsIn(h.path, "state")
    BY DEF EndsIn
  <2> QED BY <1>1, <2>1, <2>2 DEF Below
<1> QED BY <1>3, Zenon DEF IsGated

LEMMA AccountRoutes == \A h \in AccountHandlers : RouteOK(h)
BY PathOf2
   DEF AccountHandlers, Handler, RouteOK, Asked, ProOps, GroupOps

LEMMA MonitorRoutes == \A h \in MonitorHandlers : RouteOK(h)
BY PathOf1, PathOf2, PathOf3
   DEF MonitorHandlers, Handler, RouteOK, Asked, ProOps, GroupOps

LEMMA PageRoutes == \A h \in PageHandlers : RouteOK(h)
BY PathOf2, GateOf2
   DEF PageHandlers, Handler, RouteOK, Asked, ProOps, GroupOps

LEMMA StatsRoutes == \A h \in StatsHandlers : RouteOK(h)
BY PathOf2
   DEF StatsHandlers, Handler, RouteOK, Asked, ProOps, GroupOps

LEMMA ChannelRoutes == \A h \in ChannelHandlers : RouteOK(h)
BY PathOf1, PathOf2, PathOf3, PathOf4
   DEF ChannelHandlers, Handler, RouteOK, Asked, ProOps, GroupOps

LEMMA KeyRoutes == \A h \in KeyHandlers : RouteOK(h)
BY PathOf1, PathOf2
   DEF KeyHandlers, Handler, RouteOK, Asked, ProOps, GroupOps

LEMMA IncidentRoutes == \A h \in IncidentHandlers : RouteOK(h)
BY PathOf1, PathOf3, GateOf1, GateOf3
   DEF IncidentHandlers, Handler, RouteOK, Asked, ProOps, GroupOps

LEMMA SubscriptionRoutes == \A h \in SubscriptionHandlers : RouteOK(h)
BY PathOf2, PathOf3
   DEF SubscriptionHandlers, Handler, RouteOK, Asked, ProOps, GroupOps

LEMMA NewsletterRoutes == \A h \in NewsletterHandlers : RouteOK(h)
BY PathOf2
   DEF NewsletterHandlers, Handler, RouteOK, Asked, ProOps, GroupOps

LEMMA GroupRoutes == \A h \in GroupHandlers : RouteOK(h)
BY PathOf1, PathOf2, PathOf3
   DEF GroupHandlers, Handler, RouteOK, Asked, ProOps, GroupOps

LEMMA MaintenanceRoutes == \A h \in MaintenanceHandlers : RouteOK(h)
BY PathOf1, PathOf2, GateOf1, GateOf2
   DEF MaintenanceHandlers, Handler, RouteOK, Asked, ProOps, GroupOps

LEMMA DomainRoutes == \A h \in DomainHandlers : RouteOK(h)
BY PathOf1, PathOf2, GateOf1, GateOf2
   DEF DomainHandlers, Handler, RouteOK, Asked, ProOps, GroupOps


LEMMA RoutedOK == \A h \in Routed : RouteOK(h)
<1>1. \A h \in {LookupHandler, ImportHandler} : RouteOK(h)
  BY PathOf2, GateOf2 DEF LookupHandler, ImportHandler, Handler, RouteOK, Asked, ProOps, GroupOps
<1> HIDE DEF RouteOK
<1> QED BY <1>1, AccountRoutes, MonitorRoutes, PageRoutes, StatsRoutes, ChannelRoutes,
           KeyRoutes, IncidentRoutes, SubscriptionRoutes, NewsletterRoutes, GroupRoutes,
           MaintenanceRoutes, DomainRoutes, Zenon DEF Routed

\* A spelling has the parts of its path, each in some case, and perhaps one more.
LEMMA SpellingParts ==
  ASSUME NEW p, Len(p) \in Nat, NEW q \in Spellings(p)
  PROVE  Len(q) \in Nat /\ Len(q) >= Len(p) /\ \A i \in 1..Len(p) : q[i] \in {p[i], OtherCase}
<1>1. PICK odd \in SUBSET (1..Len(p)), slash \in BOOLEAN : q = Spelled(p, odd, slash)
  BY DEF Spellings
<1> DEFINE n == IF slash THEN Len(p) + 1 ELSE Len(p)
           S == {"", OtherCase} \cup {p[i] : i \in 1..Len(p)}
<1>2. n \in Nat /\ n >= Len(p)
  OBVIOUS
<1> DEFINE e(i) == IF i > Len(p) THEN "" ELSE IF i \in odd THEN OtherCase ELSE p[i]
<1>3. q \in [1..n -> S]
  <2>1. q = [i \in 1..n |-> e(i)]
    BY <1>1 DEF Spelled
  <2>2. ASSUME NEW i \in 1..n PROVE e(i) \in S
    <3>1. ~(i > Len(p)) => i \in 1..Len(p)
      <4> HIDE DEF S
      <4> QED BY <1>2
    <3> QED BY <3>1
  <2> HIDE DEF n, S, e
  <2> QED BY <2>1, <2>2
<1>4. q \in Seq(S) /\ Len(q) = n
  <2> HIDE DEF n, S
  <2>1. q \in Seq(S) /\ DOMAIN q = 1..n
    BY <1>2, <1>3, SeqDef
  <2> QED BY <1>2, <2>1, LenProperties
<1>5. \A i \in 1..Len(p) : q[i] \in {p[i], OtherCase}
  <2> SUFFICES ASSUME NEW i \in 1..Len(p)
               PROVE  q[i] \in {p[i], OtherCase}
    OBVIOUS
  <2>1. ~(i > Len(p)) /\ i \in 1..n
    BY <1>2
  <2>2. q = [j \in 1..n |-> e(j)]
    BY <1>1 DEF Spelled
  <2>3. q[i] = e(i)
    <3> HIDE DEF n, e
    <3> QED BY <2>1, <2>2
  <2> QED BY <2>1, <2>3
<1> QED BY <1>2, <1>4, <1>5

\* authMiddlewareSelector and the routes without middleware: nobody there asks,
\* in any spelling below /api/.
LEMMA OpenAsksNobody ==
  ASSUME NEW h, NEW q \in Spellings(h.path), q[1] = "api",
         h \in {BadgeHandler, FeedHandler} \/ Open(h, q)
  PROVE  ~h.asks
<1>1. CASE h \in {BadgeHandler, FeedHandler}
  BY <1>1 DEF BadgeHandler, FeedHandler, Handler
<1>2. CASE Open(h, q)
  <2> SUFFICES ASSUME h.asks
               PROVE  FALSE
    OBVIOUS
  <2>1. h \in Routed /\ IsPublic(h.method, q)
    BY <1>2 DEF Open
  <2>2. Len(h.path) \in Nat /\ Len(h.path) >= 2 /\ h.path[1] = "api" /\ Asked(h)
    BY <2>1, RoutedOK DEF RouteOK
  <2>3. Len(q) \in Nat /\ Len(q) >= 2 /\ \A i \in 1..Len(h.path) : q[i] \in {h.path[i], OtherCase}
    BY <2>2, SpellingParts
  <2>4. q[2] \in {h.path[2], OtherCase} /\ (Len(h.path) = 3 => q[3] \in {h.path[3], OtherCase})
    BY <2>2, <2>3
  <2>5. /\ q[2] \notin {"newsletter", "status", "stats", "billing", "public"}
        /\ q[2] = "auth" => q[3] \in {"me", OtherCase}
        /\ q[2] = "incidents" => h.method # "GET"
    BY <2>2, <2>4 DEF Asked, OtherCase
  <2>6. Under(q, Api(<<>>))
    BY <2>3, UnderApi
  <2>7. q \notin {Api(<<"auth", "register">>), Api(<<"auth", "login">>),
                  Api(<<"stats", "public">>), Api(<<"billing", "founder-status">>),
                  Api(<<"public", "lookup-domain">>)}
    <3>1. \A a, b : q = Api(<<a, b>>) => q[2] = a /\ q[3] = b
      BY PathOf2
    <3>2. q # Api(<<"auth", "register">>) /\ q # Api(<<"auth", "login">>)
      <4>1. ASSUME NEW b \in {"register", "login"}, q = Api(<<"auth", b>>) PROVE FALSE
        <5>1. q[2] = "auth" /\ q[3] = b
          BY <3>1, <4>1, Zenon
        <5>2. q[3] \in {"me", OtherCase}
          BY <2>5, <5>1
        <5> QED BY <5>1, <5>2 DEF OtherCase
      <4> QED BY <4>1
    <3>3. /\ q # Api(<<"stats", "public">>) /\ q # Api(<<"billing", "founder-status">>)
          /\ q # Api(<<"public", "lookup-domain">>)
      BY <2>5, <3>1
    <3> QED BY <3>2, <3>3
  <2>8. ~Below(q, Api(<<"newsletter">>)) /\ ~Below(q, Api(<<"status">>))
    BY <2>3, <2>5, UnderPart DEF Below
  <2>9. h.method = "GET" => ~Below(q, Api(<<"incidents">>))
    BY <2>3, <2>5, UnderPart DEF Below
  <2> QED BY <2>1, <2>6, <2>7, <2>8, <2>9, Zenon DEF IsPublic
<1> QED BY <1>1, <1>2

\* proGateSelector sees every route for Pro users, the groups apart, in the spelling
\* of the table, and the chain of the export is on its route in any.
LEMMA ForProIsGated ==
  ASSUME NEW h \in ForPro \ GroupHandlers, NEW q, q = h.path \/ h = ExportHandler
  PROVE  Gated(h, q)
<1>1. h \in Handlers /\ (h.op \in ProOps \/ h.op \in GroupOps)
  BY DEF ForPro, ProOps, GroupOps
<1>2. /\ BadgeHandler.op \notin ProOps \cup GroupOps /\ FeedHandler.op \notin ProOps \cup GroupOps
  BY DEF BadgeHandler, FeedHandler, Handler, ProOps, GroupOps
<1>3. h \in Routed \/ h = ExportHandler
  BY <1>1, <1>2, Zenon DEF Handlers
<1> QED BY <1>1, <1>3, RoutedOK DEF Gated, RouteOK

\* Badge and feed are not behind the gate.
LEMMA BadgeAndFeedUngated == \A q : ~Gated(BadgeHandler, q) /\ ~Gated(FeedHandler, q)
<1>1. BadgeHandler.method = "GET" /\ FeedHandler.method = "GET"
  BY DEF BadgeHandler, FeedHandler, Handler
<1>2. \A q : ~IsGated(BadgeHandler.method, q) /\ ~IsGated(FeedHandler.method, q)
  BY <1>1 DEF IsGated
<1>3. BadgeHandler # ExportHandler /\ FeedHandler # ExportHandler
  BY DEF BadgeHandler, FeedHandler, ExportHandler, Handler
<1> QED BY <1>2, <1>3 DEF Gated

-----------------------------------------------------------------------------
(* Access: the requests                                                      *)

CallRecords ==
    [at: Stages, handler: Handlers, path: UNION {Spellings(h.path) : h \in Handlers},
     with: Sessions \cup Keys \cup {Nobody}, user: {"none", "free", "pro"}, late: BOOLEAN]

\* What has been settled for a request by the time it is at its stage.
CallOK(x) ==
    /\ x.path \in Spellings(x.handler.path)
    /\ x.at = "touch" => x.user # "none"
    /\ x.at \in {"limit", "handler"} /\ x.user = "none"
          => x.handler \in {BadgeHandler, FeedHandler} \/ Open(x.handler, x.path)
    /\ x.at = "handler" /\ Gated(x.handler, x.path) => x.user = "pro"
    /\ x.with \in Keys /\ (x.at \in {"load", "touch"} \/ x.user # "none")
          => RequiredScope(x.handler.method, x.path) \in Scopes[x.with]
    /\ x.late => x.user = "none" /\ x.at \notin {"load", "touch"}

\* With the credentials as the requests found them.
AccessInv ==
    /\ AccessTypeOK
    /\ call \in [Calls -> CallRecords]
    /\ session \cap ended = {}
    /\ \A c \in Calls : CallOK(call[c]) /\ (call[c].late => Spent(call[c].with))

LEMMA NoCallOK == NoCall \in CallRecords /\ CallOK(NoCall) /\ NoCall.late = FALSE
<1>1. LookupHandler \in Handlers
  BY Zenon DEF Handlers, Routed
<1>2. LookupHandler.path \in Spellings(LookupHandler.path)
  <2> DEFINE p == LookupHandler.path
             q == Spelled(p, {}, FALSE)
             S == {"", OtherCase, "api", "public", "lookup-domain"}
  <2>1. p = <<"api">> \o <<"public", "lookup-domain">>
    BY DEF LookupHandler, Handler, Api
  <2>2. p \in Seq(S) /\ Len(p) = 3
    BY <2>1
  <2>3. q = [i \in 1..3 |-> p[i]]
    <3> HIDE DEF p
    <3>1. q = [i \in 1..3 |-> IF i > Len(p) THEN "" ELSE IF i \in {} THEN OtherCase ELSE p[i]]
      BY <2>2 DEF Spelled
    <3>2. Len(p) = 3
      BY <2>2
    <3>3. \A i \in 1..3 : ~(i > Len(p))
      <4> HIDE DEF q, S
      <4> QED BY <3>2
    <3> QED BY <3>1, <3>3
  <2>4. q = p
    <3> HIDE DEF p, q, S
    <3>1. q \in [1..3 -> S]
      BY <2>2, <2>3
    <3>2. q \in Seq(S) /\ Len(q) = 3
      <4>1. 3 \in Nat /\ DOMAIN q = 1..3
        BY <3>1
      <4>2. q \in Seq(S)
        BY <3>1, <4>1, SeqDef
      <4> QED BY <4>1, <4>2, LenProperties
    <3> QED BY <2>2, <2>3, <3>2, SeqEqual
  <2>5. {} \in SUBSET (1..Len(p)) /\ FALSE \in BOOLEAN
    OBVIOUS
  <2> HIDE DEF p
  <2>6. Spelled(p, {}, FALSE) \in Spellings(p)
    <3>1. \A odd \in SUBSET (1..Len(p)), slash \in BOOLEAN :
             Spelled(p, odd, slash) \in Spellings(p)
      BY DEF Spellings
    <3> QED BY <2>5, <3>1
  <2> QED BY <2>4, <2>6 DEF p
<1>3. NoCall \in CallRecords
  BY <1>1, <1>2, Zenon DEF NoCall, CallRecords, Stages
<1> QED BY <1>2, <1>3 DEF NoCall, CallOK

\* One request moves on: it is settled at its new stage, and what was spent is.
LEMMA OneCallMoves ==
  ASSUME AccessInv, NEW c \in Calls, NEW x \in CallRecords, CallOK(x),
         call' = [call EXCEPT ![c] = x], x.late => Spent(x.with)',
         \A w : Spent(w) => Spent(w)'
  PROVE  /\ (call \in [Calls -> CallRecords])'
         /\ (\A d \in Calls : CallOK(call[d]) /\ (call[d].late => Spent(call[d].with)))'
<1>1. call' \in [Calls -> CallRecords]
  BY DEF AccessInv
<1>2. ASSUME NEW d \in Calls
      PROVE  (CallOK(call[d]) /\ (call[d].late => Spent(call[d].with)))'
  <2>1. CASE d = c
    <3>1. call'[d] = x
      BY <2>1 DEF AccessInv
    <3> QED BY <3>1 DEF CallOK, Spent
  <2>2. CASE d # c
    <3>1. call'[d] = call[d]
      BY <2>2 DEF AccessInv
    <3>2. CallOK(call[d]) /\ (call[d].late => Spent(call[d].with))
      BY DEF AccessInv
    <3>3. (call[d].late => Spent(call[d].with))'
      BY <3>1, <3>2 DEF Spent
    <3> QED BY <3>1, <3>2, <3>3 DEF CallOK
  <2> QED BY <2>1, <2>2
<1> QED BY <1>1, <1>2

\* The typing of the requests in AccessTypeOK follows from the functions.
LEMMA CallsTyped ==
  \A f \in [Calls -> CallRecords] :
      \A c \in Calls : /\ f[c].at \in Stages
                       /\ f[c].handler \in Handlers
                       /\ CallOK(f[c]) => f[c].path \in Spellings(f[c].handler.path)
                       /\ f[c].with \in Sessions \cup Keys \cup {Nobody}
                       /\ f[c].user \in {"none", "free", "pro"}
                       /\ f[c].late \in BOOLEAN
BY DEF CallRecords, CallOK

LEMMA AccessInvInit == AccessInit => AccessInv
<1> SUFFICES ASSUME AccessInit
             PROVE  AccessInv
  OBVIOUS
<1>1. call \in [Calls -> CallRecords]
  BY NoCallOK DEF AccessInit
<1>2. \A c \in Calls : CallOK(call[c]) /\ ~call[c].late
  BY NoCallOK DEF AccessInit
<1> QED BY <1>1, <1>2, CallsTyped DEF AccessInit, AccessInv, AccessTypeOK

\* A step that moves one request on and touches nothing else.
LEMMA CallStep ==
  ASSUME AccessInv, NEW c \in Calls, NEW x \in CallRecords, CallOK(x),
         call' = [call EXCEPT ![c] = x], x.late => Spent(x.with),
         UNCHANGED <<session, apiKey, ownerPlan, ended>>
  PROVE  AccessInv'
<1>1. \A w : Spent(w)' <=> Spent(w)
  BY DEF Spent
<1>2. /\ (call \in [Calls -> CallRecords])'
      /\ (\A d \in Calls : CallOK(call[d]) /\ (call[d].late => Spent(call[d].with)))'
  BY <1>1, OneCallMoves
<1> QED BY <1>2, CallsTyped DEF AccessInv, AccessTypeOK

LEMMA BeginCallStep ==
  ASSUME AccessInv, NEW c \in Calls, NEW h \in Handlers,
         NEW w \in HandedOut \cup {Nobody}, BeginCall(c, h, w)
  PROVE  AccessInv'
<1>0. PICK path \in Sent(c, h.path) :
        /\ call' = [call EXCEPT ![c] =
               [at |-> IF h \in {BadgeHandler, FeedHandler} THEN "handler"
                       ELSE IF Open(h, path) THEN "limit" ELSE "auth",
                handler |-> h, path |-> path, with |-> w, user |-> "none", late |-> Spent(w)]]
        /\ UNCHANGED <<session, apiKey, ownerPlan, ended>>
  BY DEF BeginCall
<1> DEFINE stage == IF h \in {BadgeHandler, FeedHandler} THEN "handler"
                    ELSE IF Open(h, path) THEN "limit" ELSE "auth"
           made == [at |-> stage, handler |-> h, path |-> path, with |-> w, user |-> "none",
                    late |-> Spent(w)]
<1>1. w \in Sessions \cup Keys \cup {Nobody}
  BY DEF AccessInv, AccessTypeOK, HandedOut
<1>2. Spent(w) \in BOOLEAN
  BY DEF Spent
<1>3. path \in Spellings(h.path)
  BY SentAssumption
<1>4. made \in CallRecords
  BY <1>1, <1>2, <1>3 DEF CallRecords, Stages
<1>5. CallOK(made)
  BY <1>3, BadgeAndFeedUngated DEF CallOK
<1>6. made.late => Spent(made.with)
  OBVIOUS
<1>7. PICK x \in CallRecords : x = made
  BY <1>4
<1>8. call' = [call EXCEPT ![c] = x]
  BY <1>0, <1>7
<1> HIDE DEF made
<1> QED BY <1>0, <1>5, <1>6, <1>7, <1>8, CallStep

\* A credential in use: keys in the lead are not sessions and the other way round.
LEMMA CredentialKinds ==
  ASSUME AccessInv, NEW w
  PROVE  /\ w \in Keys => w \notin session
         /\ w \in ended => w \notin session /\ w \notin Keys
BY CredentialsAssumption DEF AccessInv, AccessTypeOK

LEMMA RefusedStep ==
  ASSUME AccessInv, NEW c \in Calls, Refused(c),
         UNCHANGED <<session, apiKey, ownerPlan, ended>>
  PROVE  AccessInv'
<1>1. call' = [call EXCEPT ![c] = NoCall]
  BY DEF Refused
<1> QED BY <1>1, NoCallOK, CallStep

LEMMA AuthenticateStep ==
  ASSUME AccessInv, NEW c \in Calls, Authenticate(c)
  PROVE  AccessInv'
<1> DEFINE w == call[c].with
           scope == RequiredScope(call[c].handler.method, call[c].path)
           made == [call[c] EXCEPT !.at = "load"]
<1>1. CASE Refused(c)
  BY <1>1, RefusedStep DEF Authenticate
<1>2. CASE ~Refused(c)
  <2>1. /\ call[c] \in CallRecords /\ CallOK(call[c]) /\ call[c].at = "auth"
        /\ call[c].late => Spent(w)
    BY DEF AccessInv, Authenticate, CallAt
  <2>2. /\ GetUserID(w) \/ AuthenticateWithAPIKey(w, call[c].handler.method, call[c].path)
        /\ call' = [call EXCEPT ![c].at = "load"]
        /\ UNCHANGED <<session, apiKey, ownerPlan, ended>>
    BY <1>2 DEF Authenticate, Proceed
  <2>3. ~Spent(w)
    BY <2>2, CredentialKinds
       DEF Spent, GetUserID, AuthenticateWithAPIKey, GetByHash, IsExpired
  <2>4. w \in Keys => scope \in Scopes[w]
    BY <2>2, CredentialKinds DEF GetUserID, AuthenticateWithAPIKey, HasScope
  <2>5. made \in CallRecords /\ made.with = w /\ made.late = call[c].late
    BY <2>1 DEF CallRecords, Stages
  <2>6. CallOK(made) /\ ~made.late
    BY <2>1, <2>3, <2>4, <2>5 DEF CallOK, CallRecords
  <2>7. PICK x \in CallRecords : x = made
    BY <2>5
  <2>8. call' = [call EXCEPT ![c] = x]
    BY <2>1, <2>2, <2>7 DEF AccessInv
  <2> HIDE DEF made
  <2> QED BY <2>2, <2>6, <2>7, <2>8, CallStep
<1> QED BY <1>1, <1>2

LEMMA LoadUserStep ==
  ASSUME AccessInv, NEW c \in Calls, LoadUser(c)
  PROVE  AccessInv'
<1> DEFINE w == call[c].with
           made == [call[c] EXCEPT !.user = ownerPlan,
                                   !.at = IF w \in Keys THEN "limit" ELSE "touch"]
<1>1. CASE Refused(c)
  BY <1>1, RefusedStep DEF LoadUser, Refused
<1>2. CASE ~Refused(c)
  <2>1. /\ call[c] \in CallRecords /\ CallOK(call[c]) /\ call[c].at = "load"
    BY DEF AccessInv, LoadUser, CallAt
  <2>2. /\ call' = [call EXCEPT ![c].user = ownerPlan,
                                ![c].at = IF w \in Keys THEN "limit" ELSE "touch"]
        /\ UNCHANGED <<session, apiKey, ownerPlan, ended>>
    BY <1>2 DEF LoadUser, Refused
  <2>3. ownerPlan \in {"free", "pro"}
    BY DEF AccessInv, AccessTypeOK
  <2>4. made \in CallRecords /\ made.with = w /\ made.late = call[c].late
    BY <2>1, <2>3 DEF CallRecords, Stages
  <2>5. CallOK(made) /\ ~made.late
    BY <2>1, <2>3, <2>4 DEF CallOK, CallRecords
  <2>6. PICK x \in CallRecords : x = made
    BY <2>4
  <2>7. call' = [call EXCEPT ![c] = x]
    BY <2>1, <2>2, <2>6 DEF AccessInv
  <2> HIDE DEF made
  <2> QED BY <2>2, <2>5, <2>6, <2>7, CallStep
<1> QED BY <1>1, <1>2

LEMMA ValidateSessionStep ==
  ASSUME AccessInv, NEW c \in Calls, ValidateSession(c)
  PROVE  AccessInv'
<1> DEFINE made == [call[c] EXCEPT !.at = "limit"]
<1>1. /\ call[c] \in CallRecords /\ CallOK(call[c]) /\ call[c].at = "touch"
  BY DEF AccessInv, ValidateSession, CallAt
<1>2. /\ call' = [call EXCEPT ![c].at = "limit"]
      /\ UNCHANGED <<session, apiKey, ownerPlan, ended>>
  BY DEF ValidateSession, Touched, Proceed
<1>3. made \in CallRecords
  BY <1>1 DEF CallRecords, Stages
<1>4. CallOK(made) /\ ~made.late
  BY <1>1 DEF CallOK, CallRecords
<1>5. PICK x \in CallRecords : x = made
  BY <1>3
<1>6. call' = [call EXCEPT ![c] = x]
  BY <1>1, <1>2, <1>5 DEF AccessInv
<1> HIDE DEF made
<1> QED BY <1>2, <1>4, <1>5, <1>6, CallStep

LEMMA LimitAndGateStep ==
  ASSUME AccessInv, NEW c \in Calls, LimitAndGate(c)
  PROVE  AccessInv'
<1> DEFINE made == [call[c] EXCEPT !.at = "handler"]
<1>1. CASE Refused(c)
  BY <1>1, RefusedStep DEF LimitAndGate
<1>2. CASE ~Refused(c)
  <2>1. /\ call[c] \in CallRecords /\ CallOK(call[c]) /\ call[c].at = "limit"
        /\ call[c].late => Spent(call[c].with)
    BY DEF AccessInv, LimitAndGate, CallAt
  <2>2. /\ call' = [call EXCEPT ![c].at = "handler"]
        /\ Gated(call[c].handler, call[c].path) => call[c].user = "pro"
        /\ UNCHANGED <<session, apiKey, ownerPlan, ended>>
    BY <1>2 DEF LimitAndGate, Proceed, RequirePro
  <2>3. made \in CallRecords
    BY <2>1 DEF CallRecords, Stages
  <2>4. CallOK(made) /\ (made.late => Spent(made.with))
    BY <2>1, <2>2 DEF CallOK, CallRecords
  <2>5. PICK x \in CallRecords : x = made
    BY <2>3
  <2>6. call' = [call EXCEPT ![c] = x]
    BY <2>1, <2>2, <2>5 DEF AccessInv
  <2> HIDE DEF made
  <2> QED BY <2>2, <2>4, <2>5, <2>6, CallStep
<1> QED BY <1>1, <1>2

\* What the handlers on sessions and keys do to the store: nothing spent comes back.
LEMMA StoreStep ==
  ASSUME AccessInv, NEW c \in Calls,
         CreateSession(c) \/ Logout(c) \/ CreateAPIKey(c) \/ RevokeAPIKey(c)
  PROVE  /\ (session \subseteq Sessions)' /\ (ended \subseteq Sessions)'
         /\ (session \cap ended = {})'
         /\ (apiKey \in [Keys -> {"unused", "live", "expired", "deleted"}])'
         /\ ownerPlan' = ownerPlan
         /\ \A w : Spent(w) => Spent(w)'
<1> USE DEF AccessInv, AccessTypeOK, Spent
<1>1. CASE CreateSession(c)
  BY <1>1 DEF CreateSession
<1>2. CASE Logout(c)
  BY <1>2 DEF Logout
<1>3. CASE CreateAPIKey(c)
  <2>1. PICK k \in Keys : apiKey[k] = "unused" /\ apiKey' = [apiKey EXCEPT ![k] = "live"]
    BY <1>3 DEF CreateAPIKey
  <2> QED BY <1>3, <2>1 DEF CreateAPIKey
<1>4. CASE RevokeAPIKey(c)
  <2>1. PICK k \in Keys : apiKey' = [apiKey EXCEPT ![k] = "deleted"]
    BY <1>4 DEF RevokeAPIKey
  <2> QED BY <1>4, <2>1 DEF RevokeAPIKey
<1> QED BY <1>1, <1>2, <1>3, <1>4

LEMMA HandleStep ==
  ASSUME AccessInv, NEW c \in Calls, Handle(c)
  PROVE  AccessInv'
<1>1. call' = [call EXCEPT ![c] = NoCall]
  BY DEF Handle
<1>2. CASE UNCHANGED <<session, apiKey, ownerPlan, ended>>
  BY <1>1, <1>2, NoCallOK, CallStep
<1>3. CASE CreateSession(c) \/ Logout(c) \/ CreateAPIKey(c) \/ RevokeAPIKey(c)
  <2>1. /\ (session \subseteq Sessions)' /\ (ended \subseteq Sessions)'
        /\ (session \cap ended = {})'
        /\ (apiKey \in [Keys -> {"unused", "live", "expired", "deleted"}])'
        /\ ownerPlan' = ownerPlan
        /\ \A w : Spent(w) => Spent(w)'
    BY <1>3, StoreStep
  <2>2. /\ (call \in [Calls -> CallRecords])'
        /\ (\A d \in Calls : CallOK(call[d]) /\ (call[d].late => Spent(call[d].with)))'
    BY <1>1, <2>1, NoCallOK, OneCallMoves
  <2> QED BY <2>1, <2>2, CallsTyped DEF AccessInv, AccessTypeOK
<1> QED BY <1>2, <1>3 DEF Handle

\* The rest of the world spends, and never gives back.
LEMMA WorldStep ==
  ASSUME AccessInv, call' = call,
         \/ \E w \in Sessions : SessionExpires(w)
         \/ \E k \in Keys : KeyExpires(k)
         \/ PlanChanges
  PROVE  AccessInv'
<1>1. /\ (session \subseteq Sessions)' /\ (ended \subseteq Sessions)'
      /\ (session \cap ended = {})'
      /\ (apiKey \in [Keys -> {"unused", "live", "expired", "deleted"}])'
      /\ (ownerPlan \in {"free", "pro"})'
      /\ \A w : Spent(w) => Spent(w)'
  <2> USE DEF AccessInv, AccessTypeOK, Spent
  <2>1. CASE \E w \in Sessions : SessionExpires(w)
    BY <2>1 DEF SessionExpires
  <2>2. CASE \E k \in Keys : KeyExpires(k)
    <3>1. PICK k \in Keys : KeyExpires(k)
      BY <2>2
    <3> QED BY <3>1 DEF KeyExpires
  <2>3. CASE PlanChanges
    BY <2>3 DEF PlanChanges
  <2> QED BY <2>1, <2>2, <2>3
<1>2. (\A d \in Calls : CallOK(call[d]) /\ (call[d].late => Spent(call[d].with)))'
  <2> SUFFICES ASSUME NEW d \in Calls
               PROVE  (CallOK(call[d]) /\ (call[d].late => Spent(call[d].with)))'
    OBVIOUS
  <2>1. CallOK(call[d]) /\ (call[d].late => Spent(call[d].with))
    BY DEF AccessInv
  <2>2. CallOK(call[d])'
    BY <2>1 DEF CallOK
  <2>3. (call[d].late => Spent(call[d].with))'
    BY <1>1, <2>1 DEF Spent
  <2> QED BY <2>2, <2>3
<1> QED BY <1>1, <1>2, CallsTyped DEF AccessInv, AccessTypeOK

LEMMA AccessInvStep == AccessInv /\ [AccessNext]_accessVars => AccessInv'
<1> SUFFICES ASSUME AccessInv, [AccessNext]_accessVars
             PROVE  AccessInv'
  OBVIOUS
<1>1. ASSUME NEW c \in Calls, NEW h \in Handlers, NEW w \in HandedOut \cup {Nobody},
             BeginCall(c, h, w)
      PROVE  AccessInv'
  BY <1>1, BeginCallStep
<1>2. ASSUME NEW c \in Calls,
             \/ Authenticate(c) \/ LoadUser(c) \/ ValidateSession(c)
             \/ LimitAndGate(c) \/ Handle(c)
      PROVE  AccessInv'
  BY <1>2, AuthenticateStep, LoadUserStep, ValidateSessionStep, LimitAndGateStep, HandleStep
<1>3. ASSUME \/ \E w \in Sessions : SessionExpires(w)
             \/ \E k \in Keys : KeyExpires(k)
             \/ PlanChanges
      PROVE  AccessInv'
  <2>1. call' = call
    BY <1>3 DEF SessionExpires, KeyExpires, PlanChanges
  <2> QED BY <1>3, <2>1, WorldStep
<1>4. CASE UNCHANGED accessVars
  <2>1. UNCHANGED <<session, apiKey, ownerPlan, call, ended>>
    BY <1>4 DEF accessVars
  <2> QED BY <2>1 DEF AccessInv, AccessTypeOK, CallOK, Spent
<1> QED BY <1>1, <1>2, <1>3, <1>4, Zenon DEF AccessNext

LEMMA AccessAlways == AccessSpec => []AccessInv
BY AccessInvInit, AccessInvStep, PTL DEF AccessSpec

\* Only well-formed sessions, keys and requests exist, whatever the requests and
\* however they interleave with logouts, expiries and changes of plan.
THEOREM AccessTypeCorrect == AccessSpec => []AccessTypeOK
<1>1. AccessInv => AccessTypeOK
  BY DEF AccessInv
<1> QED BY <1>1, AccessAlways, PTL

\* A handler has what it takes for granted, in every spelling of its path: the user
\* it asks for if the path begins with /api/, a Pro user where its comment says so if
\* the path is spelled as in the table, and the scope of the key if the resource is
\* (setup.go:92-215, middleware.go:54-70).
THEOREM HandlerTrustsChainAlways == AccessSpec => []HandlerTrustsChain
<1>1. ASSUME AccessInv
      PROVE  HandlerTrustsChain
  <2> SUFFICES ASSUME NEW c \in Calls, call[c].at = "handler"
               PROVE  LET h == call[c].handler
                          path == call[c].path
                      IN  /\ h.asks /\ path[1] = "api" => call[c].user # "none"
                          /\ h \in ForPro \ GroupHandlers /\ (path = h.path \/ h = ExportHandler)
                                => call[c].user = "pro"
                          /\ (call[c].with \in Keys /\ call[c].user # "none"
                                 /\ path[1] = h.path[1] /\ path[2] = h.path[2])
                                => RequiredScope(h.method, h.path) \in Scopes[call[c].with]
    BY DEF HandlerTrustsChain, CallAt
  <2> DEFINE h == call[c].handler
             path == call[c].path
  <2>1. CallOK(call[c])
    BY <1>1 DEF AccessInv
  <2>2. h.asks /\ path[1] = "api" => call[c].user # "none"
    BY <2>1, OpenAsksNobody DEF CallOK
  <2>3. h \in ForPro \ GroupHandlers /\ (path = h.path \/ h = ExportHandler) => call[c].user = "pro"
    BY <2>1, ForProIsGated DEF CallOK
  <2>4. path[1] = h.path[1] /\ path[2] = h.path[2]
          => RequiredScope(h.method, path) = RequiredScope(h.method, h.path)
    BY DEF RequiredScope
  <2> QED BY <2>1, <2>2, <2>3, <2>4 DEF CallOK
<1> QED BY <1>1, AccessAlways, PTL

\* A session or a key that was spent when a request came in never gives that
\* request a user (auth.go:108-128, session.go:41-51).
THEOREM SpentStaysSpentAlways == AccessSpec => []SpentStaysSpent
<1>1. AccessInv => SpentStaysSpent
  BY DEF AccessInv, CallOK, SpentStaysSpent
<1> QED BY <1>1, AccessAlways, PTL

-----------------------------------------------------------------------------
(* The import                                                                *)

WithURL(e) == {c.id : c \in {d \in e.components : d.url}}

\* A row of the incident it came from.
RowMatches(r) ==
    LET inc == upload.incidents[r.of]
    IN /\ r.of \in 1..(turn - 1)
       /\ r.monitor \in written.monitors
       /\ r.closed <=> inc.resolved
       /\ DOMAIN r.updates = DOMAIN inc.updates
       /\ \A u \in DOMAIN r.updates : r.updates[u] # "unknown"

\* What the transaction has written before a turn: the attached incidents among those
\* that had theirs, each once, and an open one only as the last of its monitor.
WrittenOK ==
    /\ turn = 0 => written = Nothing
    /\ turn > 0 => written.monitors = WithURL(upload)
    /\ written = [monitors |-> written.monitors, incidents |-> written.incidents]
    /\ \A r \in written.incidents : RowMatches(r)
    /\ {r.of : r \in written.incidents} = {i \in Attached(upload) : i < turn}
    /\ \A r, q \in written.incidents :
          /\ r.of = q.of => r = q
          /\ r.of < q.of /\ r.monitor = q.monitor => r.closed

ImportInv ==
    /\ upload \in Exports
    /\ turn \in 0..(Len(upload.incidents) + 1)
    /\ outcome \in {"running", "committed", "failed"}
    /\ WrittenOK
    /\ outcome # "committed" => stored = Nothing
    /\ outcome = "committed" => stored = written /\ turn = Len(upload.incidents) + 1

LEMMA ImportInvInit == ImportInit => ImportInv
<1> SUFFICES ASSUME ImportInit
             PROVE  ImportInv
  OBVIOUS
<1>1. Len(upload.incidents) \in Nat
  BY ExportsAssumption DEF ImportInit
<1>2. \A i \in Attached(upload) : ~(i < 0)
  BY <1>1 DEF Attached
<1>3. written.incidents = {} /\ written.monitors = {} /\ turn = 0 /\ written = Nothing
  BY DEF ImportInit, Nothing
<1>4. {r.of : r \in written.incidents} = {i \in Attached(upload) : i < turn}
  BY <1>2, <1>3
<1>5. written = [monitors |-> written.monitors, incidents |-> written.incidents]
  BY <1>3 DEF Nothing
<1>6. /\ \A r \in written.incidents : RowMatches(r)
      /\ \A r, q \in written.incidents :
            /\ r.of = q.of => r = q
            /\ r.of < q.of /\ r.monitor = q.monitor => r.closed
  BY <1>3
<1>7. WrittenOK
  BY <1>3, <1>4, <1>5, <1>6 DEF WrittenOK
<1> QED BY <1>1, <1>3, <1>7 DEF ImportInit, ImportInv

LEMMA ImportComponentsStep ==
  ASSUME ImportInv, ImportComponents
  PROVE  ImportInv'
<1>1. Len(upload.incidents) \in Nat
  BY ExportsAssumption DEF ImportInv
<1>2. /\ written = Nothing /\ turn' = 1 /\ upload' = upload /\ stored' = stored
      /\ outcome' = outcome /\ outcome = "running"
      /\ written' = [written EXCEPT !.monitors = WithURL(upload)]
  BY DEF ImportInv, WrittenOK, ImportComponents, WithURL
<1>3. written' = [monitors |-> WithURL(upload), incidents |-> {}]
  BY <1>2 DEF Nothing
<1>4. \A i \in Attached(upload) : ~(i < 1)
  BY <1>1 DEF Attached
<1>5. WrittenOK'
  <2>1. written'.monitors = WithURL(upload) /\ written'.incidents = {}
    BY <1>3
  <2>2. {r.of : r \in written'.incidents} = {i \in Attached(upload) : i < turn'}
    BY <1>2, <1>4, <2>1
  <2>3. ~(turn' = 0)
    BY <1>2
  <2>4. written' = [monitors |-> written'.monitors, incidents |-> written'.incidents]
    BY <1>3
  <2>5. upload' = upload
    BY <1>2
  <2> QED BY <2>1, <2>2, <2>3, <2>4, <2>5, Zenon DEF WrittenOK
<1> QED BY <1>1, <1>2, <1>5 DEF ImportInv

\* A turn that leaves its incident out: it touches no component with a URL.
LEMMA LeftOutStep ==
  ASSUME ImportInv, outcome = "running", turn \in 1..Len(upload.incidents),
         \A k \in DOMAIN upload.incidents[turn].components :
             upload.incidents[turn].components[k] \notin written.monitors,
         UNCHANGED <<upload, written, stored, outcome>>, turn' = turn + 1
  PROVE  ImportInv'
<1>1. Len(upload.incidents) \in Nat
  BY ExportsAssumption DEF ImportInv
<1>2. turn \notin Attached(upload)
  BY DEF Attached, WithURL, ImportInv, WrittenOK
<1>3. {i \in Attached(upload) : i < turn'} = {i \in Attached(upload) : i < turn}
  BY <1>1, <1>2 DEF Attached
<1>4. \A r \in written.incidents : RowMatches(r)'
  BY <1>1 DEF ImportInv, WrittenOK, RowMatches
<1>5. WrittenOK'
  BY <1>1, <1>3, <1>4 DEF ImportInv, WrittenOK
<1> QED BY <1>1, <1>5 DEF ImportInv

\* A turn that writes its incident.
LEMMA WrittenStep ==
  ASSUME ImportInv, outcome = "running", turn \in 1..Len(upload.incidents),
         NEW k \in PickMonitorForIncident(upload.incidents[turn], written.monitors),
         ~TurnFails(written.incidents, upload.incidents[turn],
                    upload.incidents[turn].components[k]),
         written' = [written EXCEPT !.incidents =
                        @ \cup {Imported(turn, upload.incidents[turn],
                                         upload.incidents[turn].components[k])}],
         UNCHANGED <<upload, stored, outcome>>, turn' = turn + 1
  PROVE  ImportInv'
<1> DEFINE inc == upload.incidents[turn]
           id == inc.components[k]
           made == Imported(turn, inc, id)
<1>1. Len(upload.incidents) \in Nat
  BY ExportsAssumption DEF ImportInv
<1>2. /\ k \in DOMAIN inc.components /\ id \in written.monitors
      /\ written.monitors = WithURL(upload)
  BY DEF PickMonitorForIncident, ImportInv, WrittenOK
<1>3. turn \in Attached(upload)
  BY <1>2 DEF Attached, WithURL
<1>4. /\ written'.monitors = written.monitors
      /\ written'.incidents = written.incidents \cup {made}
      /\ written' = [monitors |-> written'.monitors, incidents |-> written'.incidents]
  BY DEF ImportInv, WrittenOK
<1>5. /\ made.of = turn /\ made.monitor = id /\ made.closed = inc.resolved
      /\ DOMAIN made.updates = DOMAIN inc.updates
      /\ \A u \in DOMAIN made.updates : made.updates[u] # "unknown"
  BY DEF Imported, TurnFails
<1>6. \A r \in written.incidents : r.of \in 1..(turn - 1) /\ (r.monitor = id => r.closed)
  BY DEF ImportInv, WrittenOK, RowMatches, TurnFails, HasOpen
<1> HIDE DEF made, id
<1>7. \A r \in written'.incidents : RowMatches(r)'
  <2>1. ASSUME NEW r \in written.incidents
        PROVE  RowMatches(r)'
    <3>1. RowMatches(r) /\ upload' = upload
      BY DEF ImportInv, WrittenOK
    <3> QED BY <1>1, <1>4, <3>1 DEF RowMatches
  <2>2. ASSUME NEW m, m = made
        PROVE  RowMatches(m)'
    <3>1. /\ m.of = turn /\ m.monitor \in written'.monitors /\ m.closed = inc.resolved
          /\ DOMAIN m.updates = DOMAIN inc.updates
          /\ \A u \in DOMAIN m.updates : m.updates[u] # "unknown"
      BY <1>2, <1>4, <1>5, <2>2
    <3>2. m.of \in 1..(turn' - 1) /\ upload'.incidents[m.of] = inc
      BY <1>1, <3>1
    <3> QED BY <3>1, <3>2 DEF RowMatches
  <2> QED BY <1>4, <2>1, <2>2
<1>8. {r.of : r \in written'.incidents} = {i \in Attached(upload) : i < turn'}
  <2>1. {r.of : r \in written'.incidents} = {r.of : r \in written.incidents} \cup {turn}
    BY <1>4, <1>5
  <2>2. {i \in Attached(upload) : i < turn'} = {i \in Attached(upload) : i < turn} \cup {turn}
    BY <1>1, <1>3 DEF Attached
  <2> QED BY <2>1, <2>2 DEF ImportInv, WrittenOK
<1>9. \A r, q \in written'.incidents :
         /\ r.of = q.of => r = q
         /\ r.of < q.of /\ r.monitor = q.monitor => r.closed
  <2>1. \A r, q \in written.incidents :
           /\ r.of = q.of => r = q
           /\ r.of < q.of /\ r.monitor = q.monitor => r.closed
    BY DEF ImportInv, WrittenOK
  <2> QED BY <1>4, <1>5, <1>6, <2>1
<1>10. WrittenOK'
  <2>1. turn' > 0 /\ ~(turn' = 0)
    OBVIOUS
  <2>2. upload' = upload
    OBVIOUS
  <2>3. written'.monitors = WithURL(upload)
    BY <1>2, <1>4
  <2> QED BY <1>4, <1>7, <1>8, <1>9, <2>1, <2>2, <2>3, Zenon DEF WrittenOK
<1> QED BY <1>1, <1>10 DEF ImportInv

LEMMA ImportInvStep == ImportInv /\ [ImportNext]_importVars => ImportInv'
<1> SUFFICES ASSUME ImportInv, [ImportNext]_importVars
             PROVE  ImportInv'
  OBVIOUS
<1>1. CASE ImportComponents
  BY <1>1, ImportComponentsStep
<1>2. CASE ImportIncident
  <2>1. /\ outcome = "running" /\ turn \in 1..Len(upload.incidents)
        /\ UNCHANGED <<upload, stored, outcome>> /\ turn' = turn + 1
    BY <1>2 DEF ImportIncident
  <2>2. CASE /\ \A k \in DOMAIN upload.incidents[turn].components :
                    upload.incidents[turn].components[k] \notin written.monitors
             /\ UNCHANGED written
    BY <2>1, <2>2, LeftOutStep
  <2>3. CASE \E k \in PickMonitorForIncident(upload.incidents[turn], written.monitors) :
                /\ ~TurnFails(written.incidents, upload.incidents[turn],
                              upload.incidents[turn].components[k])
                /\ written' = [written EXCEPT !.incidents =
                                  @ \cup {Imported(turn, upload.incidents[turn],
                                                   upload.incidents[turn].components[k])}]
    BY <2>1, <2>3, WrittenStep
  <2> QED BY <1>2, <2>2, <2>3, Zenon DEF ImportIncident
<1>3. CASE Commit
  BY <1>3 DEF Commit, ImportInv, WrittenOK, RowMatches
<1>4. CASE Rollback
  BY <1>4 DEF Rollback, ImportInv, WrittenOK, RowMatches
<1>5. CASE UNCHANGED importVars
  BY <1>5 DEF importVars, ImportInv, WrittenOK, RowMatches
<1> QED BY <1>1, <1>2, <1>3, <1>4, <1>5 DEF ImportNext

LEMMA ImportTypeOf == ImportInv => ImportTypeOK
<1> SUFFICES ASSUME ImportInv
             PROVE  ImportTypeOK
  OBVIOUS
<1>1. Len(upload.incidents) \in Nat
  BY ExportsAssumption DEF ImportInv
<1>2. written.monitors \subseteq {c.id : c \in upload.components}
  BY DEF ImportInv, WrittenOK, WithURL, Nothing
<1>3. \A r \in written.incidents : r.of \in 1..Len(upload.incidents) /\ r.monitor \in written.monitors
  BY <1>1 DEF ImportInv, WrittenOK, RowMatches
<1> QED BY <1>2, <1>3 DEF ImportTypeOK, ImportInv

\* An import is all or nothing, puts every incident that touches an imported component
\* in once with all its updates, and never leaves two open ones on a monitor, for every
\* set of exports (atlassian_importer.go:88-196).
THEOREM ImportMatchesAlways == ImportSpec => []ImportMatches
<1>1. ASSUME ImportInv
      PROVE  ImportMatches
  <2>1. Len(upload.incidents) \in Nat
    BY <1>1, ExportsAssumption DEF ImportInv
  <2>2. CASE outcome # "committed"
    BY <1>1, <2>2 DEF ImportInv, ImportMatches
  <2>3. CASE outcome = "committed"
    <3>1. stored = written /\ turn = Len(upload.incidents) + 1
      BY <1>1, <2>3 DEF ImportInv
    <3>2. {i \in Attached(upload) : i < turn} = Attached(upload)
      BY <2>1, <3>1 DEF Attached
    <3>3. {r.of : r \in stored.incidents} = Attached(upload)
      BY <1>1, <3>1, <3>2 DEF ImportInv, WrittenOK
    <3>4. \A r \in stored.incidents : RowMatches(r)
      BY <1>1, <3>1 DEF ImportInv, WrittenOK
    <3>5. \A r, q \in stored.incidents :
             /\ r.of = q.of => r = q
             /\ r.of < q.of /\ r.monitor = q.monitor => r.closed
      BY <1>1, <3>1 DEF ImportInv, WrittenOK
    <3> QED BY <2>3, <3>1, <3>3, <3>4, <3>5 DEF ImportMatches, RowMatches
  <2> QED BY <2>2, <2>3
<1> QED BY <1>1, ImportInvInit, ImportInvStep, PTL DEF ImportSpec
=============================================================================
