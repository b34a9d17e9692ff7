------------------------- MODULE TenantProvisioning -------------------------
(***************************************************************************)
(* What operators do to a tenant: provision it, change its plan, switch a  *)
(* feature, give it the shop snapshot; and the partner system that hands   *)
(* over a mechanic.  An operator's request is short and rare: one step.    *)
(***************************************************************************)
EXTENDS Tenants

(* What the operator answers for: features fs, and the status if active. *)
Gives(fs, status) ==
  /\ acts < MaxActs
  /\ acts' = acts + 1
  /\ given' = given \cup fs
  /\ vouched' = (vouched \/ status = "active")

(* provision_tenant *)
ProvisionTenant(plan, status) ==
  /\ tenant' = [plan |-> plan, status |-> status, active |-> status # "cancelled",
                features |-> FeaturesOf[plan]]
  /\ flag' = Flagged(FeaturesOf[plan])
  /\ Gives(FeaturesOf[plan], status)

(* update_tenant_plan: a status may come with the plan; is_active stays. *)
UpdatePlan(plan, status) ==
  /\ tenant # NoTenant
  /\ tenant' = [plan |-> plan, status |-> status, active |-> tenant.active,
                features |-> FeaturesOf[plan]]
  /\ flag' = Flagged(FeaturesOf[plan])
  /\ Gives(FeaturesOf[plan], IF status = tenant.status THEN "kept" ELSE status)

(* update_feature_flag *)
SetFlag(f, enabled) ==
  /\ tenant # NoTenant
  /\ flag' = [flag EXCEPT ![f] = IF enabled THEN "on" ELSE "off"]
  /\ Gives(IF enabled THEN {f} ELSE {}, "kept")
  /\ UNCHANGED tenant

(* provision_shop_snapshot: the flags are not touched. *)
ShopSnapshot(plan, status) ==
  /\ tenant' = [plan |-> plan, status |-> status, active |-> status \in ActiveStatuses,
                features |-> FeaturesOf[plan]]
  /\ Gives(FeaturesOf[plan], status)
  /\ UNCHANGED flag

(* provision_mechanic: a new tenant is active with the orchestrator's own  *)
(* features; one that exists is made active and keeps its features.        *)
ProvisionMechanic(plan, status) ==
  /\ tenant = NoTenant => plan # None /\ status # "absent"
  /\ tenant' = [plan |-> plan, status |-> status, active |-> TRUE,
                features |-> IF tenant = NoTenant THEN MechanicFeatures ELSE tenant.features]
  /\ Gives(IF tenant = NoTenant THEN MechanicFeatures ELSE {},
           IF status = tenant.status THEN "kept" ELSE status)
  /\ UNCHANGED flag

OperatorNext ==
  \/ \E plan \in Plans, status \in OperatorStatuses :
       ProvisionTenant(plan, status) \/ ShopSnapshot(plan, status)
  \/ \E plan \in Plans, status \in OperatorStatuses \cup {tenant.status} : UpdatePlan(plan, status)
  \/ \E plan \in Plans \cup {tenant.plan}, status \in OperatorStatuses \cup {tenant.status} :
       ProvisionMechanic(plan, status)
  \/ \E f \in Features, enabled \in BOOLEAN : SetFlag(f, enabled)
=============================================================================
