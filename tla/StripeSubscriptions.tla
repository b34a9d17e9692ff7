------------------------- MODULE StripeSubscriptions -------------------------
(***************************************************************************)
(* Stripe, the checkouts a shop opens and the web hooks of subscriptions.  *)
(*                                                                         *)
(* A request loads the tenant when it begins and writes what it changed    *)
(* when it ends: requests overlap, and any may abort.  Of two that overlap *)
(* the one that ends first is as good as one step, so that one handler     *)
(* shows every overlap of two requests, and n handlers every chain of n+1. *)
(* Stripe delivers an event as often as it likes and in any order.         *)
(***************************************************************************)
EXTENDS Tenants

CONSTANTS
  Handlers,  \* the requests that can be in progress at once
  Abandoned  \* bound: the subscriptions whose checkout is never paid

VARIABLES
  stripe,    \* Stripe: each subscription's state and plan
  sent,      \* Stripe: the events it has to deliver
  recorded,  \* the lifecycle events the database holds
  work       \* the request each handler serves and the row it loaded

stripeVars == <<stripe, sent, recorded, work>>

EventKinds == {"checkout"} \cup StripeStatuses
Events == [what : EventKinds, sub : Subscriptions, plan : Plans]
Openings == [what : {"open"}, sub : Subscriptions, plan : Plans]
NoJob == [what |-> "none"]
Jobs == Events \cup Openings
Idle == [job |-> NoJob, tenant |-> NoTenant]

Nothing == [state |-> "none", plan |-> None]
SubscriptionRow == [state : StripeStatuses \cup {"open"}, plan : Plans] \cup {Nothing}

StripeTypeOK ==
  /\ stripe \in [Subscriptions -> SubscriptionRow]
  /\ sent \subseteq Events
  /\ recorded \subseteq Events
  /\ work \in [Handlers -> [job : Jobs \cup {NoJob}, tenant : TenantRow]]

StripeInit ==
  /\ stripe = [s \in Subscriptions |-> Nothing]
  /\ sent = {}
  /\ recorded = {}
  /\ work = [h \in Handlers |-> Idle]

-----------------------------------------------------------------------------
(* Stripe's own steps.  Every plan starts with a trial; an event stands    *)
(* for all deliveries that report the same state of a subscription.        *)
Event(s, what) == [what |-> what, sub |-> s, plan |-> stripe[s].plan]

Moves(state) ==
  CASE state = "open"     -> {"trialing"}
    [] state = "trialing" -> {"active", "lapsed"}
    [] state = "active"   -> {"lapsed"}
    [] state = "lapsed"   -> {"active"}
    [] OTHER              -> {}

StripeMoves(s) ==
  /\ s \notin Abandoned
  /\ \E to \in Moves(stripe[s].state) :
       /\ stripe' = [stripe EXCEPT ![s] = [state |-> to, plan |-> stripe[s].plan]]
       /\ sent' = sent \cup {Event(s, to)} \cup
                  (IF stripe[s].state = "open" THEN {Event(s, "checkout")} ELSE {})
  /\ UNCHANGED <<tenantVars, recorded, work>>

-----------------------------------------------------------------------------
(* Mutant: only a paid period, not a trial, is kept. *)
AwaitingDespiteTrial(t, plan) ==
  IF t.status = "active"
    THEN [plan |-> plan, status |-> t.status, active |-> t.active, features |-> t.features]
    ELSE [plan |-> plan, status |-> "pending_checkout", active |-> FALSE,
          features |-> t.features]

(* create_checkout_session: the tenant waits for its payment, unless it is *)
(* active already; the plan becomes the one to be bought in any case.      *)
Awaiting(t, plan) ==
  IF t.status \in ActiveStatuses
    THEN [plan |-> plan, status |-> t.status, active |-> t.active, features |-> t.features]
    ELSE [plan |-> plan, status |-> "pending_checkout", active |-> FALSE,
          features |-> t.features]

OpenCheckout(j, t) ==
  /\ j \in Openings
  /\ stripe[j.sub].state = "none"
  /\ t = NoTenant => tenant = NoTenant
  /\ tenant' = Written(t, Awaiting(t, j.plan))
  /\ stripe' = [stripe EXCEPT ![j.sub] = [state |-> "open", plan |-> j.plan]]
  /\ UNCHANGED <<flag, recorded>>

-----------------------------------------------------------------------------
(* The lifecycle record of an event: emit_event by its idempotency key. *)
Recorded(e) == recorded' = recorded \cup {e}

(* Mutant: the features of the plan in the tenant's row are taken. *)
PaidForOldPlan(t, plan) ==
  [plan |-> plan, status |-> "active", active |-> TRUE,
   features |-> IF t.plan \in Plans THEN FeaturesOf[t.plan] ELSE {}]

(* sync_checkout_completed: the tenant is active whatever the state of the *)
(* subscription is by now.                                                 *)
PaidFor(t, plan) ==
  [plan |-> plan, status |-> "active", active |-> TRUE, features |-> FeaturesOf[plan]]

CheckoutCompleted(e, t) ==
  /\ e \in Events
  /\ e.what = "checkout"
  /\ tenant' = Written(t, PaidFor(t, e.plan))
  /\ flag' = Flagged(FeaturesOf[e.plan])
  /\ Recorded(e)
  /\ UNCHANGED stripe

(* sync_subscription: the tenant follows the event, whichever came before. *)
Synced(t, plan, status) ==
  LET live == status \in ActiveStatuses IN
  [plan |-> plan, status |-> status, active |-> live,
   features |-> IF live THEN FeaturesOf[plan] ELSE t.features]

SubscriptionSynced(e, t) ==
  /\ e \in Events
  /\ e.what # "checkout"
  /\ tenant' = Written(t, Synced(t, e.plan, e.what))
  /\ flag' = Flagged(IF e.what \in ActiveStatuses THEN FeaturesOf[e.plan] ELSE {})
  /\ Recorded(e)
  /\ UNCHANGED stripe

-----------------------------------------------------------------------------
(* A checkout of a plan is wanted, or the delivery of an event. *)
Wanted(j) == IF j.what = "open" THEN stripe[j.sub].state = "none" ELSE j \in sent

(* A request with the tenant's row t as its session loaded it. *)
Serves(j, t) ==
  /\ OpenCheckout(j, t) \/ CheckoutCompleted(j, t) \/ SubscriptionSynced(j, t)
  /\ UNCHANGED <<operatorVars, sent>>

(* A request no other overlaps. *)
Serve(j) == Wanted(j) /\ Serves(j, tenant) /\ UNCHANGED work

(* A request that others overlap: it loads the tenant's row and works on   *)
(* that until it commits.                                                  *)
Begin(h, j) ==
  /\ work[h] = Idle
  /\ Wanted(j)
  /\ work' = [work EXCEPT ![h] = [job |-> j, tenant |-> tenant]]
  /\ UNCHANGED <<tenantVars, stripe, sent, recorded>>

Ends(h) == work' = [work EXCEPT ![h] = Idle]

Finish(h) == Serves(work[h].job, work[h].tenant) /\ Ends(h)

(* A request that fails, or conflicts with another, is rolled back. *)
Abort(h) ==
  /\ work[h] # Idle
  /\ Ends(h)
  /\ UNCHANGED <<tenantVars, stripe, sent, recorded>>

StripeNext ==
  \/ \E s \in Subscriptions : StripeMoves(s)
  \/ \E j \in Jobs : Serve(j)
  \/ \E h \in Handlers : (\E j \in Jobs : Begin(h, j)) \/ Finish(h) \/ Abort(h)
=============================================================================
