-------------------------------- MODULE Tenants --------------------------------
(***************************************************************************)
(* One shop as the database knows it: its tenant row with the plan and the *)
(* features, and its feature flags.                                        *)
(*                                                                         *)
(* What no access is decided on (names, contacts, onboarding labels, setup *)
(* fee, usage rows, the GHL mirror, the rows of subscriptions, the AI      *)
(* agent) is left out.                                                     *)
(***************************************************************************)
EXTENDS Naturals

CONSTANTS
  Plans,            \* the plans that are sold
  Features,         \* the features a plan can enable
  FeaturesOf,       \* the features of each plan
  MechanicFeatures, \* the features the orchestrator gives a new tenant
  Subscriptions,    \* Stripe's subscription ids
  MaxActs,          \* bound: how often operators act
  None

ASSUME PlansAssumption ==
  /\ FeaturesOf \in [Plans -> SUBSET Features]
  /\ MechanicFeatures \subseteq Features
  /\ None \notin Plans

ASSUME MaxActsAssumption == MaxActs \in Nat

VARIABLES
  tenant,   \* the tenant's row
  flag,     \* the tenant's feature flags
  given,    \* the features an operator ever gave this tenant
  vouched,  \* whether an operator ever set the tenant's status to active
  acts      \* how often operators acted

operatorVars == <<given, vouched, acts>>
tenantVars == <<tenant, flag, operatorVars>>

(* A lapsed subscription is any other: incomplete, past due, unpaid, canceled. *)
ActiveStatuses == {"active", "trialing"}
StripeStatuses == {"trialing", "active", "lapsed"}
OperatorStatuses == {"active", "cancelled"}
Statuses == StripeStatuses \cup OperatorStatuses \cup {"absent", "pending_checkout"}

TenantRow == [plan : Plans \cup {None}, status : Statuses, active : BOOLEAN,
              features : SUBSET Features]

NoTenant == [plan |-> None, status |-> "absent", active |-> FALSE, features |-> {}]

TenantTypeOK ==
  /\ tenant \in TenantRow
  /\ flag \in [Features -> {"unset", "on", "off"}]
  /\ given \subseteq Features
  /\ vouched \in BOOLEAN
  /\ acts \in Nat

TenantInit ==
  /\ tenant = NoTenant
  /\ flag = [f \in Features |-> "unset"]
  /\ given = {}
  /\ vouched = FALSE
  /\ acts = 0

(* What plan_deps asks before it lets a request through. *)
HasFeature(f) ==
  /\ tenant.active
  /\ tenant.status = "active"
  /\ IF flag[f] = "unset" THEN f \in tenant.features ELSE flag[f] = "on"

-----------------------------------------------------------------------------
(* SQLAlchemy writes only the columns whose value differs from the one the *)
(* session loaded: a row read as "read", changed to "new" and committed    *)
(* over what the row holds by then.                                        *)
Column(read, new, now) == IF new # read THEN new ELSE now

Written(read, new) ==
  [plan     |-> Column(read.plan, new.plan, tenant.plan),
   status   |-> Column(read.status, new.status, tenant.status),
   active   |-> Column(read.active, new.active, tenant.active),
   features |-> Column(read.features, new.features, tenant.features)]

(* Mutant: the flags of other features are lost. *)
FlaggedAlone(fs) == [f \in fs |-> "on"]

(* Flags are added for the features of a plan and never removed. *)
Flagged(fs) == [f \in Features |-> IF f \in fs THEN "on" ELSE flag[f]]
=============================================================================
