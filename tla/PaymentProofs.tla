---------------------------- MODULE PaymentProofs ----------------------------
(***************************************************************************)
(* The payment component never believes in money Stripe does not know of.  *)
(*                                                                         *)
(* PaymentIsReal alone is not inductive: a late webhook is obeyed whatever *)
(* the job believes, so the argument needs what the events that are still  *)
(* on their way say about Stripe (EventsAreReal): "succeeded" is final,    *)
(* and whatever was held has raised its event.                             *)
(***************************************************************************)
EXTENDS StripePayments, TLAPS

Raised(type, pi) == [type |-> type, intent |-> pi] \in events

EventsAreReal ==
  \A pi \in Intents :
    /\ stripe[pi] \in {"requires_capture", "succeeded"} =>
         Raised("amount_capturable_updated", pi)
    /\ Raised("succeeded", pi) => stripe[pi] = "succeeded"

PaymentInv == PaymentTypeOK /\ EventsAreReal /\ PaymentIsReal

\* A new event joins the ones that were raised, and none is forgotten.
LEMMA EventAdded ==
  ASSUME NEW pi \in Intents, NEW type \in EventType,
         PaymentTypeOK,
         events' = events \cup {[type |-> type, intent |-> pi]}
  PROVE  /\ events' \subseteq Event
         /\ \A t \in EventType, q \in Intents :
              Raised(t, q)' <=> Raised(t, q) \/ (t = type /\ q = pi)
BY DEF PaymentTypeOK, Event, Raised

\* Each of Stripe's own moves keeps the invariant.
LEMMA StripeKeepsPaymentInv ==
  ASSUME NEW pi \in Intents, PaymentInv,
         \/ DriverAuthorizes(pi) \/ CardRefused(pi)
         \/ OperatorCaptures(pi) \/ IntentCanceled(pi)
  PROVE  PaymentInv'
<1> USE IntentsAssumption DEF PaymentInv
<1>1. PICK from \in SUBSET {"requires_payment_method", "requires_capture"},
           to \in StripeStatus \ {"absent"}, type \in EventType :
        /\ StripeStep(pi, from, to, type)
        /\ to \in {"requires_capture", "succeeded"} =>
             \/ type = "amount_capturable_updated"
             \/ from = {"requires_capture"}
        /\ type = "succeeded" => to = "succeeded"
  BY DEF DriverAuthorizes, CardRefused, OperatorCaptures, IntentCanceled,
         StripeStatus, EventType
<1>2. /\ stripe[pi] \in from
      /\ stripe' = [stripe EXCEPT ![pi] = to]
      /\ events' = events \cup {[type |-> type, intent |-> pi]}
      /\ payStatus' = payStatus /\ intent' = intent
  BY <1>1 DEF StripeStep
<1>3. /\ events' \subseteq Event
      /\ \A t \in EventType, q \in Intents :
           Raised(t, q)' <=> Raised(t, q) \/ (t = type /\ q = pi)
  BY <1>2, EventAdded
<1>4. PaymentTypeOK'
  BY <1>2, <1>3 DEF PaymentTypeOK
<1>5. EventsAreReal'
  BY <1>1, <1>2, <1>3 DEF PaymentTypeOK, EventsAreReal, EventType, StripeStatus
<1>6. PaymentIsReal'
  BY <1>2, <1>3 DEF PaymentTypeOK, PaymentIsReal, Raised, StripeStatus
<1> QED
  BY <1>4, <1>5, <1>6

\* The handlers keep the invariant: a new intent starts from nothing, and a
\* verdict is Stripe's, asked for or announced.
LEMMA HandlersKeepPaymentInv ==
  ASSUME PaymentInv,
         \/ CreateIntent \/ ConfirmIntent \/ DemoAuthorize
         \/ \E e \in events : HandleStripeEvent(e)
  PROVE  PaymentInv'
<1> USE IntentsAssumption DEF PaymentInv
<1>1. CASE CreateIntent
  <2>1. PICK pi \in Intents :
          /\ stripe[pi] = "absent"
          /\ stripe' = [stripe EXCEPT ![pi] = "requires_payment_method"]
          /\ intent' = pi /\ payStatus' = "pending" /\ events' = events
    BY <1>1 DEF CreateIntent
  <2>2. PaymentTypeOK'
    BY <2>1 DEF PaymentTypeOK, StripeStatus, PaymentStatus
  <2>3. EventsAreReal'
    BY <2>1 DEF PaymentTypeOK, EventsAreReal, Raised
  <2>4. PaymentIsReal'
    BY <2>1 DEF PaymentIsReal
  <2> QED
    BY <2>2, <2>3, <2>4
<1>2. CASE ConfirmIntent
  <2>1. /\ intent \in Intents
        /\ payStatus' = Verdict(stripe[intent])
        /\ intent' = intent /\ stripe' = stripe /\ events' = events
    BY <1>2 DEF ConfirmIntent, PaymentTypeOK
  <2>2. PaymentTypeOK' /\ EventsAreReal'
    BY <2>1 DEF PaymentTypeOK, EventsAreReal, Raised, Verdict, PaymentStatus
  <2>3. PaymentIsReal'
    BY <2>1 DEF PaymentIsReal, EventsAreReal, Raised, Verdict
  <2> QED
    BY <2>2, <2>3
<1>3. CASE DemoAuthorize
  BY <1>3 DEF DemoAuthorize, PaymentTypeOK, EventsAreReal, PaymentIsReal, Raised,
              PaymentStatus
<1>4. ASSUME NEW e \in events, HandleStripeEvent(e)
      PROVE  PaymentInv'
  <2>1. /\ intent \in Intents /\ e.type \in EventType
        /\ e = [type |-> e.type, intent |-> intent]
        /\ payStatus' = EventVerdict(e.type)
        /\ intent' = intent /\ stripe' = stripe /\ events' = events
    BY <1>4 DEF HandleStripeEvent, PaymentTypeOK, Event
  <2>2. PaymentTypeOK' /\ EventsAreReal'
    BY <2>1 DEF PaymentTypeOK, EventsAreReal, Raised, EventVerdict, PaymentStatus
  <2>3. PaymentIsReal'
    BY <2>1, <1>4 DEF PaymentIsReal, EventsAreReal, Raised, EventVerdict, EventType
  <2> QED
    BY <2>2, <2>3
<1> QED
  BY <1>1, <1>2, <1>3, <1>4

\* The inductive invariant of the payment columns, whatever the order in which
\* confirmations and webhooks arrive.
THEOREM PaymentInvariant == PaymentSpec => []PaymentInv
<1>1. PaymentInit => PaymentInv
  BY DEF PaymentInit, PaymentInv, PaymentTypeOK, EventsAreReal, PaymentIsReal,
         Raised, PaymentStatus, StripeStatus
<1>2. PaymentInv /\ [PaymentNext]_paymentVars => PaymentInv'
  <2>1. ASSUME PaymentInv, UNCHANGED paymentVars
        PROVE  PaymentInv'
    BY <2>1 DEF PaymentInv, PaymentTypeOK, EventsAreReal, PaymentIsReal, Raised,
                paymentVars
  <2> QED
    BY <2>1, StripeKeepsPaymentInv, HandlersKeepPaymentInv
    DEF PaymentNext, StripeMoves
<1> QED
  BY <1>1, <1>2, PTL DEF PaymentSpec

\* A job that says "captured" or "authorized" is right about Stripe, for every
\* number of intents and every schedule of webhooks.
THEOREM PaymentIsRealAlways == PaymentSpec => []PaymentIsReal
<1>1. PaymentInv => PaymentIsReal
  BY DEF PaymentInv
<1> QED
  BY <1>1, PaymentInvariant, PTL
=============================================================================
