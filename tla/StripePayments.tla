--------------------------- MODULE StripePayments ---------------------------
(***************************************************************************)
(* The payment columns of one job (payment_status and                      *)
(* stripe_payment_intent_id), the PaymentIntents Stripe holds for it, and  *)
(* the webhook events Stripe raised.  An event that was raised stays in    *)
(* the set, so that Stripe may deliver it late, again or in any order.     *)
(*                                                                         *)
(* Every action here is one half of a handler of the job: JobDispatch      *)
(* EXTENDS this module and conjoins what the handler does to the rest of   *)
(* the job.                                                                *)
(***************************************************************************)

CONSTANTS
  Intents,      \* the PaymentIntent ids Stripe can hand out for the job
  NoIntent,     \* stripe_payment_intent_id is NULL
  SkipPayment   \* settings.DEMO_SKIP_PAYMENT_AUTHORIZATION

ASSUME IntentsAssumption == NoIntent \notin Intents
ASSUME SkipPaymentAssumption == SkipPayment \in BOOLEAN

VARIABLES
  payStatus,    \* jobs.payment_status
  intent,       \* jobs.stripe_payment_intent_id
  stripe,       \* the status of each PaymentIntent, kept by Stripe
  events        \* every webhook event raised so far

paymentVars == <<payStatus, intent, stripe, events>>

PaymentStatus == {"not_started", "pending", "authorized", "captured", "failed"}

StripeStatus == {"absent", "requires_payment_method", "requires_capture",
                 "succeeded", "canceled"}

EventType == {"amount_capturable_updated", "succeeded", "payment_failed", "canceled"}

Event == [type : EventType, intent : Intents]

\* The statuses that start_dispatch lets through.
Paid == {"authorized", "captured"}

PaymentTypeOK ==
  /\ payStatus \in PaymentStatus
  /\ intent \in Intents \cup {NoIntent}
  /\ stripe \in [Intents -> StripeStatus]
  /\ events \subseteq Event

PaymentInit ==
  /\ payStatus = "not_started"
  /\ intent = NoIntent
  /\ stripe = [pi \in Intents |-> "absent"]
  /\ events = {}

(***************************************************************************)
(* The service.                                                            *)
(***************************************************************************)

\* A new intent replaces the one the job had: the old one is not canceled.
CreateIntent ==
  \E pi \in Intents :
    /\ stripe[pi] = "absent"
    /\ stripe' = [stripe EXCEPT ![pi] = "requires_payment_method"]
    /\ intent' = pi
    /\ payStatus' = "pending"
    /\ UNCHANGED events

\* Mutant: the front end's word is taken without asking Stripe.
VerdictUnverified(s) == IF s = "succeeded" THEN "captured" ELSE "authorized"

Verdict(s) ==
  CASE s = "requires_capture" -> "authorized"
    [] s = "succeeded" -> "captured"
    [] OTHER -> "failed"

\* The front end reports that the driver authorized; Stripe is asked.
ConfirmIntent ==
  /\ intent # NoIntent
  /\ payStatus' = Verdict(stripe[intent])
  /\ UNCHANGED <<intent, stripe, events>>

EventVerdict(type) ==
  CASE type = "amount_capturable_updated" -> "authorized"
    [] type = "succeeded" -> "captured"
    [] OTHER -> "failed"

\* Mutant: a job that moved on to a new intent still obeys the old one's events.
HandleStripeEventOfAny(e) ==
  /\ intent # NoIntent
  /\ payStatus' = EventVerdict(e.type)
  /\ UNCHANGED <<intent, stripe, events>>

\* The job is looked up by the event's intent: an event of an intent the job
\* no longer points at is ignored.
HandleStripeEvent(e) ==
  /\ e.intent = intent
  /\ payStatus' = EventVerdict(e.type)
  /\ UNCHANGED <<intent, stripe, events>>

\* DEMO_SKIP_PAYMENT_AUTHORIZATION marks the job authorized with no intent.
DemoAuthorize ==
  /\ SkipPayment
  /\ payStatus' = "authorized"
  /\ UNCHANGED <<intent, stripe, events>>

(***************************************************************************)
(* Stripe and the card holder.                                             *)
(***************************************************************************)
StripeStep(pi, from, to, type) ==
  /\ stripe[pi] \in from
  /\ stripe' = [stripe EXCEPT ![pi] = to]
  /\ events' = events \cup {[type |-> type, intent |-> pi]}
  /\ UNCHANGED <<payStatus, intent>>

\* The driver's bank places the hold.
DriverAuthorizes(pi) ==
  StripeStep(pi, {"requires_payment_method"}, "requires_capture", "amount_capturable_updated")

\* The card is refused; the intent waits for another card.
CardRefused(pi) ==
  StripeStep(pi, {"requires_payment_method"}, "requires_payment_method", "payment_failed")

\* The hold is captured from Stripe's dashboard: the service never does it.
OperatorCaptures(pi) ==
  StripeStep(pi, {"requires_capture"}, "succeeded", "succeeded")

\* The intent is canceled, or its hold expires.
IntentCanceled(pi) ==
  StripeStep(pi, {"requires_payment_method", "requires_capture"}, "canceled", "canceled")

StripeMoves ==
  \E pi \in Intents :
    \/ DriverAuthorizes(pi)
    \/ CardRefused(pi)
    \/ OperatorCaptures(pi)
    \/ IntentCanceled(pi)

PaymentNext ==
  \/ CreateIntent
  \/ ConfirmIntent
  \/ \E e \in events : HandleStripeEvent(e)
  \/ DemoAuthorize
  \/ StripeMoves

PaymentSpec == PaymentInit /\ [][PaymentNext]_paymentVars

-----------------------------------------------------------------------------

\* The job never believes in money Stripe does not know of: "captured" means
\* that the job's own intent was captured, and outside demo mode "authorized"
\* means that a hold was once placed on it, whatever order the front end's
\* confirmation and the webhooks came in and however many intents came before.
PaymentIsReal ==
  /\ payStatus = "captured" => intent # NoIntent /\ stripe[intent] = "succeeded"
  /\ payStatus = "authorized" /\ ~SkipPayment =>
       /\ intent # NoIntent
       /\ [type |-> "amount_capturable_updated", intent |-> intent] \in events

\* Webhook events are processed idempotently (the docstrings of
\* handle_stripe_event and stripe_webhook): an event that arrives again, or
\* late, does not undo the capture of the intent the job still points at.
CapturedStaysCaptured ==
  [][payStatus = "captured" /\ intent' = intent => payStatus' = "captured"]_paymentVars
=============================================================================
