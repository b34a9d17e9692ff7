---------------------------- MODULE TenantBilling ----------------------------
(***************************************************************************)
(* A shop's tenant between Stripe, its owner and the operators.            *)
(***************************************************************************)
EXTENDS StripeSubscriptions, TenantProvisioning

vars == <<tenantVars, stripeVars>>

TypeOK == TenantTypeOK /\ StripeTypeOK

Init == TenantInit /\ StripeInit

Next == StripeNext \/ (OperatorNext /\ UNCHANGED stripeVars)

Spec == Init /\ [][Next]_vars

-----------------------------------------------------------------------------
(* A tenant gets no feature for nothing.  Whoever has a feature, has it    *)
(* from a recorded event of Stripe whose plan holds it, or an operator     *)
(* gave it; and some recorded event, or an operator, made the tenant       *)
(* active.  However the web hooks overlap, repeat and overtake each other, *)
(* and whatever checkouts are opened and left.                             *)
Granted(f) ==
  \/ f \in given
  \/ \E e \in recorded : e.what \in ActiveStatuses \cup {"checkout"} /\ f \in FeaturesOf[e.plan]

Paid ==
  \/ vouched
  \/ \E e \in recorded : e.what \in {"active", "checkout"}

FeaturesArePaidFor == \A f \in Features : HasFeature(f) => Granted(f) /\ Paid

(* A shop whose subscription lives is locked out by the report of a trial  *)
(* and by nothing else.  While Stripe has reported nothing but checkouts,  *)
(* trials and paid periods, and no operator acted, the tenant has from the *)
(* first event on every feature of every plan it was reported to hold: a   *)
(* repeated or late event, another checkout opened in between or a request *)
(* that saved an older row does not take one away.  The exception is real: *)
(* plan_deps lets only "active" through, so that a trial, reported as late *)
(* and as often as Stripe likes, takes every feature from a paying shop.   *)
HasAccess ==
  /\ tenant.status = "active"
  /\ \A e \in recorded : \A f \in FeaturesOf[e.plan] : HasFeature(f)

LockedOutByTrial ==
  /\ tenant.status = "trialing"
  /\ \E e \in recorded : e.what = "trialing"

OnlyTrialsLockOut ==
  /\ acts = 0
  /\ \A e \in sent : e.what \in ActiveStatuses \cup {"checkout"}
  /\ recorded # {}
  => tenant.active /\ (HasAccess \/ LockedOutByTrial)
=============================================================================
