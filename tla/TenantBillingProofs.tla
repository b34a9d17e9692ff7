------------------------- MODULE TenantBillingProofs -------------------------
(***************************************************************************)
(* The tenant's row is well typed, features are paid for and only trials   *)
(* lock a paying tenant out: for any number of plans, features,            *)
(* subscriptions and handlers, and any number of operators' acts.          *)
(***************************************************************************)
EXTENDS TenantBilling, TLAPS

-----------------------------------------------------------------------------
(* A row is well typed column by column. *)
LEMMA RowType ==
  ASSUME NEW r \in TenantRow
  PROVE  /\ r.plan \in Plans \cup {None}
         /\ r.status \in Statuses
         /\ r.active \in BOOLEAN
         /\ r.features \in SUBSET Features
BY SMT DEF TenantRow

LEMMA MakeRow ==
  ASSUME NEW p \in Plans \cup {None}, NEW s \in Statuses, NEW a \in BOOLEAN,
         NEW fs \in SUBSET Features
  PROVE  [plan |-> p, status |-> s, active |-> a, features |-> fs] \in TenantRow
BY SMT DEF TenantRow

LEMMA NoTenantType == NoTenant \in TenantRow
BY SMT DEF NoTenant, TenantRow, Statuses, OperatorStatuses, StripeStatuses

(* What a request writes is well typed when both of its rows are. *)
LEMMA WrittenType ==
  ASSUME NEW r \in TenantRow, NEW n \in TenantRow, tenant \in TenantRow
  PROVE  Written(r, n) \in TenantRow
BY RowType, SMT DEF Written, Column, TenantRow

LEMMA AwaitingType ==
  ASSUME NEW t \in TenantRow, NEW p \in Plans
  PROVE  Awaiting(t, p) \in TenantRow
<1>1. t.status \in Statuses /\ t.active \in BOOLEAN /\ t.features \in SUBSET Features
  BY RowType
<1>2. p \in Plans \cup {None} /\ "pending_checkout" \in Statuses /\ FALSE \in BOOLEAN
  BY DEF Statuses
<1> QED BY <1>1, <1>2, MakeRow DEF Awaiting

LEMMA PaidForType ==
  ASSUME NEW t \in TenantRow, NEW p \in Plans
  PROVE  PaidFor(t, p) \in TenantRow
<1>1. "active" \in Statuses /\ FeaturesOf[p] \in SUBSET Features
  BY PlansAssumption DEF Statuses, OperatorStatuses
<1> QED BY <1>1, MakeRow DEF PaidFor

LEMMA SyncedType ==
  ASSUME NEW t \in TenantRow, NEW p \in Plans, NEW s \in StripeStatuses
  PROVE  Synced(t, p, s) \in TenantRow
<1>1. s \in Statuses /\ (s \in ActiveStatuses) \in BOOLEAN
  BY DEF Statuses
<1>2. FeaturesOf[p] \in SUBSET Features /\ t.features \in SUBSET Features
  BY PlansAssumption, RowType
<1> QED BY <1>1, <1>2, MakeRow DEF Synced

LEMMA FlaggedType ==
  ASSUME NEW fs, flag \in [Features -> {"unset", "on", "off"}]
  PROVE  Flagged(fs) \in [Features -> {"unset", "on", "off"}]
BY DEF Flagged

(* An event's columns. *)
LEMMA EventType ==
  ASSUME NEW e \in Events
  PROVE  e.what \in EventKinds /\ e.sub \in Subscriptions /\ e.plan \in Plans
BY SMT DEF Events

LEMMA OpeningType ==
  ASSUME NEW j \in Openings
  PROVE  j.what = "open" /\ j.sub \in Subscriptions /\ j.plan \in Plans
BY SMT DEF Openings

(* The job and the row a handler holds. *)
LEMMA WorkType ==
  ASSUME StripeTypeOK, NEW h \in Handlers
  PROVE  work[h].job \in Jobs \cup {NoJob} /\ work[h].tenant \in TenantRow
BY SMT DEF StripeTypeOK

-----------------------------------------------------------------------------
(* Serving a request keeps every type but that of the handlers. *)
ServedTypeOK ==
  /\ TenantTypeOK
  /\ stripe \in [Subscriptions -> SubscriptionRow]
  /\ sent \subseteq Events
  /\ recorded \subseteq Events

LEMMA OpenCheckoutType ==
  ASSUME ServedTypeOK, NEW j, NEW t \in TenantRow, OpenCheckout(j, t), UNCHANGED <<operatorVars, sent>>
  PROVE  ServedTypeOK'
<1>1. j.sub \in Subscriptions /\ j.plan \in Plans
  BY OpeningType DEF OpenCheckout
<1>2. tenant' \in TenantRow
  BY <1>1, AwaitingType, WrittenType DEF OpenCheckout, ServedTypeOK, TenantTypeOK
<1>3. [state |-> "open", plan |-> j.plan] \in SubscriptionRow
  BY <1>1, SMT DEF SubscriptionRow
<1>4. stripe' \in [Subscriptions -> SubscriptionRow]
  BY <1>1, <1>3 DEF OpenCheckout, ServedTypeOK
<1> QED BY <1>2, <1>4 DEF OpenCheckout, ServedTypeOK, TenantTypeOK, operatorVars

LEMMA CheckoutCompletedType ==
  ASSUME ServedTypeOK, NEW e, NEW t \in TenantRow, CheckoutCompleted(e, t),
         UNCHANGED <<operatorVars, sent>>
  PROVE  ServedTypeOK'
<1>1. e \in Events /\ e.plan \in Plans
  BY EventType DEF CheckoutCompleted
<1>2. tenant' \in TenantRow
  BY <1>1, PaidForType, WrittenType DEF CheckoutCompleted, ServedTypeOK, TenantTypeOK
<1>3. flag' \in [Features -> {"unset", "on", "off"}]
  BY FlaggedType DEF CheckoutCompleted, ServedTypeOK, TenantTypeOK
<1>4. recorded' \subseteq Events
  BY <1>1 DEF CheckoutCompleted, Recorded, ServedTypeOK
<1> QED BY <1>2, <1>3, <1>4 DEF CheckoutCompleted, ServedTypeOK, TenantTypeOK, operatorVars

LEMMA SubscriptionSyncedType ==
  ASSUME ServedTypeOK, NEW e, NEW t \in TenantRow, SubscriptionSynced(e, t),
         UNCHANGED <<operatorVars, sent>>
  PROVE  ServedTypeOK'
<1>1. e \in Events /\ e.plan \in Plans /\ e.what \in StripeStatuses
  BY EventType DEF SubscriptionSynced, EventKinds
<1>2. tenant' \in TenantRow
  BY <1>1, SyncedType, WrittenType DEF SubscriptionSynced, ServedTypeOK, TenantTypeOK
<1>3. flag' \in [Features -> {"unset", "on", "off"}]
  BY FlaggedType DEF SubscriptionSynced, ServedTypeOK, TenantTypeOK
<1>4. recorded' \subseteq Events
  BY <1>1 DEF SubscriptionSynced, Recorded, ServedTypeOK
<1> QED BY <1>2, <1>3, <1>4 DEF SubscriptionSynced, ServedTypeOK, TenantTypeOK, operatorVars

LEMMA ServesType ==
  ASSUME ServedTypeOK, NEW j, NEW t \in TenantRow, Serves(j, t)
  PROVE  ServedTypeOK'
BY OpenCheckoutType, CheckoutCompletedType, SubscriptionSyncedType DEF Serves

(* Taking up a request and ending it. *)
LEMMA WorkStepType ==
  ASSUME StripeTypeOK, NEW h \in Handlers, NEW j \in Jobs \cup {NoJob}, NEW t \in TenantRow,
         work' = [work EXCEPT ![h] = [job |-> j, tenant |-> t]]
  PROVE  work' \in [Handlers -> [job : Jobs \cup {NoJob}, tenant : TenantRow]]
<1>1. [job |-> j, tenant |-> t] \in [job : Jobs \cup {NoJob}, tenant : TenantRow]
  BY SMT
<1> QED BY <1>1 DEF StripeTypeOK

LEMMA EndsType ==
  ASSUME StripeTypeOK, NEW h \in Handlers, Ends(h)
  PROVE  work' \in [Handlers -> [job : Jobs \cup {NoJob}, tenant : TenantRow]]
BY WorkStepType, NoTenantType DEF Ends, Idle

LEMMA TypeParts ==
  /\ TypeOK <=> /\ ServedTypeOK
                /\ work \in [Handlers -> [job : Jobs \cup {NoJob}, tenant : TenantRow]]
  /\ TypeOK' <=> /\ ServedTypeOK'
                 /\ work' \in [Handlers -> [job : Jobs \cup {NoJob}, tenant : TenantRow]]
BY DEF TypeOK, StripeTypeOK, ServedTypeOK

(* Stripe's moves. *)
LEMMA StripeMovesType ==
  ASSUME TypeOK, NEW s \in Subscriptions, StripeMoves(s)
  PROVE  TypeOK'
<1>1. PICK to \in Moves(stripe[s].state) :
        /\ stripe' = [stripe EXCEPT ![s] = [state |-> to, plan |-> stripe[s].plan]]
        /\ sent' = sent \cup {Event(s, to)} \cup
                   (IF stripe[s].state = "open" THEN {Event(s, "checkout")} ELSE {})
  BY DEF StripeMoves
<1>2. stripe \in [Subscriptions -> SubscriptionRow]
  BY DEF TypeOK, StripeTypeOK
<1>3. to \in StripeStatuses /\ stripe[s] # Nothing
  BY <1>1 DEF Moves, StripeStatuses, Nothing
<1>4. stripe[s].plan \in Plans
  BY <1>2, <1>3, SMT DEF SubscriptionRow
<1>5. [state |-> to, plan |-> stripe[s].plan] \in SubscriptionRow
  BY <1>3, <1>4, SMT DEF SubscriptionRow
<1>6. stripe' \in [Subscriptions -> SubscriptionRow]
  BY <1>1, <1>2, <1>5
<1>7. Event(s, to) \in Events /\ Event(s, "checkout") \in Events
  BY <1>3, <1>4, SMT DEF Event, Events, EventKinds
<1>8. sent' \subseteq Events
  BY <1>1, <1>7 DEF TypeOK, StripeTypeOK
<1> QED BY <1>6, <1>8 DEF StripeMoves, TypeOK, StripeTypeOK, TenantTypeOK, tenantVars, operatorVars

(* Operators' acts. *)
LEMMA GivesType ==
  ASSUME TenantTypeOK, NEW fs \in SUBSET Features, NEW s, Gives(fs, s)
  PROVE  given' \subseteq Features /\ vouched' \in BOOLEAN /\ acts' \in Nat
BY DEF TenantTypeOK, Gives

LEMMA OperatorType ==
  ASSUME TypeOK, OperatorNext
  PROVE  TenantTypeOK'
<1> USE DEF TypeOK, TenantTypeOK
<1>0. /\ tenant.plan \in Plans \cup {None} /\ tenant.status \in Statuses
      /\ tenant.active \in BOOLEAN /\ tenant.features \in SUBSET Features
      /\ MechanicFeatures \in SUBSET Features
  BY RowType, PlansAssumption
<1>1. ASSUME NEW p \in Plans, NEW s \in OperatorStatuses, ProvisionTenant(p, s)
      PROVE  TenantTypeOK'
  <2>1. FeaturesOf[p] \in SUBSET Features /\ s \in Statuses /\ (s # "cancelled") \in BOOLEAN
    BY PlansAssumption DEF Statuses
  <2>2. tenant' \in TenantRow
    BY <1>1, <2>1, MakeRow DEF ProvisionTenant
  <2> QED BY <1>1, <2>1, <2>2, GivesType, FlaggedType DEF ProvisionTenant
<1>2. ASSUME NEW p \in Plans, NEW s \in OperatorStatuses, ShopSnapshot(p, s)
      PROVE  TenantTypeOK'
  <2>1. FeaturesOf[p] \in SUBSET Features /\ s \in Statuses /\ (s \in ActiveStatuses) \in BOOLEAN
    BY PlansAssumption DEF Statuses
  <2>2. tenant' \in TenantRow
    BY <1>2, <2>1, MakeRow DEF ShopSnapshot
  <2> QED BY <1>2, <2>1, <2>2, GivesType DEF ShopSnapshot
<1>3. ASSUME NEW p \in Plans, NEW s \in OperatorStatuses \cup {tenant.status}, UpdatePlan(p, s)
      PROVE  TenantTypeOK'
  <2>1. FeaturesOf[p] \in SUBSET Features /\ s \in Statuses
    BY <1>0, PlansAssumption DEF Statuses
  <2>2. tenant' \in TenantRow
    BY <1>0, <1>3, <2>1, MakeRow DEF UpdatePlan
  <2> QED BY <1>3, <2>1, <2>2, GivesType, FlaggedType DEF UpdatePlan
<1>4. ASSUME NEW p \in Plans \cup {tenant.plan}, NEW s \in OperatorStatuses \cup {tenant.status},
             ProvisionMechanic(p, s)
      PROVE  TenantTypeOK'
  <2>1. s \in Statuses /\ p \in Plans \cup {None}
    BY <1>0 DEF Statuses
  <2>2. tenant' \in TenantRow
    <3>1. CASE tenant = NoTenant
      BY <1>0, <1>4, <2>1, <3>1, MakeRow DEF ProvisionMechanic
    <3>2. CASE tenant # NoTenant
      BY <1>0, <1>4, <2>1, <3>2, MakeRow DEF ProvisionMechanic
    <3> QED BY <3>1, <3>2
  <2>3. (IF tenant = NoTenant THEN MechanicFeatures ELSE {}) \in SUBSET Features
    BY <1>0
  <2> QED BY <1>4, <2>2, <2>3, GivesType DEF ProvisionMechanic
<1>5. ASSUME NEW f \in Features, NEW b \in BOOLEAN, SetFlag(f, b)
      PROVE  TenantTypeOK'
  <2>1. (IF b THEN {f} ELSE {}) \in SUBSET Features
    OBVIOUS
  <2> QED BY <1>5, <2>1, GivesType DEF SetFlag
<1> QED BY <1>1, <1>2, <1>3, <1>4, <1>5 DEF OperatorNext

LEMMA TypeStep == TypeOK /\ [Next]_vars => TypeOK'
<1> SUFFICES ASSUME TypeOK, [Next]_vars PROVE TypeOK'
  OBVIOUS
<1>0. ServedTypeOK /\ StripeTypeOK /\ tenant \in TenantRow
  BY TypeParts DEF TypeOK, TenantTypeOK
<1>1. ASSUME NEW s \in Subscriptions, StripeMoves(s) PROVE TypeOK'
  BY <1>1, StripeMovesType
<1>2. ASSUME NEW j \in Jobs, Serve(j) PROVE TypeOK'
  BY <1>0, <1>2, ServesType, TypeParts DEF Serve
<1>3. ASSUME NEW h \in Handlers, NEW j \in Jobs, Begin(h, j) PROVE TypeOK'
  <2>1. work' \in [Handlers -> [job : Jobs \cup {NoJob}, tenant : TenantRow]]
    BY <1>0, <1>3, WorkStepType DEF Begin
  <2> QED BY <1>0, <1>3, <2>1, TypeParts
          DEF Begin, ServedTypeOK, TenantTypeOK, tenantVars, operatorVars
<1>4. ASSUME NEW h \in Handlers, Finish(h) PROVE TypeOK'
  BY <1>0, <1>4, WorkType, ServesType, EndsType, TypeParts DEF Finish
<1>5. ASSUME NEW h \in Handlers, Abort(h) PROVE TypeOK'
  BY <1>0, <1>5, EndsType, TypeParts
     DEF Abort, ServedTypeOK, TenantTypeOK, tenantVars, operatorVars
<1>6. CASE OperatorNext /\ UNCHANGED stripeVars
  BY <1>0, <1>6, OperatorType DEF stripeVars, TypeOK, StripeTypeOK
<1>7. CASE UNCHANGED vars
  BY <1>7 DEF vars, stripeVars, tenantVars, operatorVars, TypeOK, StripeTypeOK, TenantTypeOK
<1> QED BY <1>1, <1>2, <1>3, <1>4, <1>5, <1>6, <1>7 DEF Next, StripeNext

LEMMA TypeInit == Init => TypeOK
<1> SUFFICES ASSUME Init PROVE TypeOK
  OBVIOUS
<1>1. TenantTypeOK
  BY NoTenantType DEF Init, TenantInit, TenantTypeOK
<1>2. [job |-> NoJob, tenant |-> NoTenant] \in [job : Jobs \cup {NoJob}, tenant : TenantRow]
  BY NoTenantType, SMT
<1>3. StripeTypeOK
  BY <1>2 DEF Init, StripeInit, StripeTypeOK, SubscriptionRow, Idle
<1> QED BY <1>1, <1>3 DEF TypeOK

(* The tables and requests of a tenant keep their types. *)
THEOREM TypeCorrect == Spec => []TypeOK
BY TypeInit, TypeStep, PTL DEF Spec

-----------------------------------------------------------------------------
(* Features are paid for.  Access needs the row's status and features or a *)
(* flag; the invariant says of each of the three by itself where it came   *)
(* from, whether access follows from it now or not.                        *)
GrantInv ==
  /\ \A f \in tenant.features : Granted(f)
  /\ \A f \in Features : flag[f] = "on" => Granted(f)
  /\ tenant.status = "active" => Paid

LEMMA GrantsLast ==
  ASSUME given \subseteq given', recorded \subseteq recorded', vouched => vouched'
  PROVE  /\ \A f : Granted(f) => Granted(f)'
         /\ Paid => Paid'
BY DEF Granted, Paid

(* A request's write: each column is the request's own or the row's. *)
LEMMA WrittenGrants ==
  ASSUME GrantInv, NEW r, NEW n, tenant' = Written(r, n),
         given \subseteq given', recorded \subseteq recorded', vouched => vouched',
         n.features = r.features \/ \A f \in n.features : Granted(f)',
         n.status = r.status \/ n.status # "active" \/ Paid'
  PROVE  /\ \A f \in tenant'.features : Granted(f)'
         /\ tenant'.status = "active" => Paid'
<1>1. /\ tenant'.features \in {n.features, tenant.features}
      /\ n.features = r.features => tenant'.features = tenant.features
      /\ tenant'.status \in {n.status, tenant.status}
      /\ n.status = r.status => tenant'.status = tenant.status
  BY DEF Written, Column
<1>2. ASSUME NEW f \in tenant'.features PROVE Granted(f)'
  BY <1>1, <1>2, GrantsLast DEF GrantInv
<1>3. ASSUME tenant'.status = "active" PROVE Paid'
  BY <1>1, <1>3, GrantsLast DEF GrantInv
<1> QED BY <1>2, <1>3

LEMMA FlaggedGrants ==
  ASSUME GrantInv, NEW fs, flag' = Flagged(fs),
         given \subseteq given', recorded \subseteq recorded', vouched => vouched',
         \A f \in fs : Granted(f)'
  PROVE  \A f \in Features : flag'[f] = "on" => Granted(f)'
BY GrantsLast DEF Flagged, GrantInv

(* What the operators give lasts. *)
LEMMA GivesGrants ==
  ASSUME NEW fs, NEW s, Gives(fs, s), UNCHANGED recorded
  PROVE  /\ given \subseteq given' /\ recorded \subseteq recorded' /\ (vouched => vouched')
         /\ \A f \in fs : Granted(f)'
         /\ s = "active" => Paid'
BY DEF Gives, Granted, Paid

LEMMA ServesGrants ==
  ASSUME TypeOK, GrantInv, NEW j, NEW t \in TenantRow, Serves(j, t)
  PROVE  GrantInv'
<1>0. given = given' /\ vouched = vouched'
  BY DEF Serves, operatorVars
<1>1. CASE OpenCheckout(j, t)
  <2>1. /\ Awaiting(t, j.plan).features = t.features
        /\ Awaiting(t, j.plan).status \in {t.status, "pending_checkout"}
    BY DEF Awaiting
  <2>2. recorded = recorded' /\ flag = flag'
    BY <1>1 DEF OpenCheckout
  <2>3. tenant' = Written(t, Awaiting(t, j.plan))
    BY <1>1 DEF OpenCheckout
  <2>4. /\ \A f \in tenant'.features : Granted(f)'
        /\ tenant'.status = "active" => Paid'
    BY <1>0, <2>1, <2>2, <2>3, WrittenGrants
  <2> QED BY <1>0, <2>2, <2>4, GrantsLast DEF GrantInv
<1>2. CASE CheckoutCompleted(j, t)
  <2>1. j \in recorded' /\ recorded \subseteq recorded' /\ j.what = "checkout"
    BY <1>2 DEF CheckoutCompleted, Recorded
  <2>2. (\A f \in FeaturesOf[j.plan] : Granted(f)') /\ Paid'
    BY <2>1 DEF Granted, Paid
  <2>3. PaidFor(t, j.plan).features = FeaturesOf[j.plan]
    BY DEF PaidFor
  <2>4. tenant' = Written(t, PaidFor(t, j.plan)) /\ flag' = Flagged(FeaturesOf[j.plan])
    BY <1>2 DEF CheckoutCompleted
  <2>5. /\ \A f \in tenant'.features : Granted(f)'
        /\ tenant'.status = "active" => Paid'
    BY <1>0, <2>1, <2>2, <2>3, <2>4, WrittenGrants
  <2>6. \A f \in Features : flag'[f] = "on" => Granted(f)'
    BY <1>0, <2>1, <2>2, <2>4, FlaggedGrants
  <2> QED BY <2>5, <2>6 DEF GrantInv
<1>3. CASE SubscriptionSynced(j, t)
  <2> DEFINE fs == IF j.what \in ActiveStatuses THEN FeaturesOf[j.plan] ELSE {}
             n == Synced(t, j.plan, j.what)
  <2>1. j \in recorded' /\ recorded \subseteq recorded'
    BY <1>3 DEF SubscriptionSynced, Recorded
  <2>2. \A f \in fs : Granted(f)'
    BY <2>1 DEF Granted
  <2>3. n.status = "active" => Paid'
    BY <2>1 DEF Paid, Synced
  <2>4. n.features = t.features \/ n.features = fs
    BY DEF Synced
  <2>5. tenant' = Written(t, n) /\ flag' = Flagged(fs)
    BY <1>3 DEF SubscriptionSynced
  <2> HIDE DEF fs, n
  <2>6. n.features = t.features \/ \A f \in n.features : Granted(f)'
    BY <2>2, <2>4
  <2>7. /\ \A f \in tenant'.features : Granted(f)'
        /\ tenant'.status = "active" => Paid'
    BY <1>0, <2>1, <2>3, <2>5, <2>6, WrittenGrants
  <2>8. \A f \in Features : flag'[f] = "on" => Granted(f)'
    BY <1>0, <2>1, <2>2, <2>5, FlaggedGrants
  <2> QED BY <2>7, <2>8 DEF GrantInv
<1> QED BY <1>1, <1>2, <1>3 DEF Serves

LEMMA OperatorGrants ==
  ASSUME TypeOK, GrantInv, OperatorNext, UNCHANGED recorded
  PROVE  GrantInv'
<1>1. ASSUME NEW p \in Plans, NEW s \in OperatorStatuses, ProvisionTenant(p, s)
      PROVE  GrantInv'
  <2>1. /\ tenant'.features = FeaturesOf[p] /\ tenant'.status = s
        /\ flag' = Flagged(FeaturesOf[p]) /\ Gives(FeaturesOf[p], s)
    BY <1>1 DEF ProvisionTenant
  <2> QED BY <2>1, GivesGrants, FlaggedGrants DEF GrantInv
<1>2. ASSUME NEW p \in Plans, NEW s \in OperatorStatuses, ShopSnapshot(p, s)
      PROVE  GrantInv'
  <2>1. /\ tenant'.features = FeaturesOf[p] /\ tenant'.status = s
        /\ flag' = flag /\ Gives(FeaturesOf[p], s)
    BY <1>2 DEF ShopSnapshot
  <2> QED BY <2>1, GivesGrants, GrantsLast DEF GrantInv
<1>3. ASSUME NEW p \in Plans, NEW s \in OperatorStatuses \cup {tenant.status}, UpdatePlan(p, s)
      PROVE  GrantInv'
  <2> DEFINE w == IF s = tenant.status THEN "kept" ELSE s
  <2>1. /\ tenant'.features = FeaturesOf[p] /\ tenant'.status = s
        /\ flag' = Flagged(FeaturesOf[p]) /\ Gives(FeaturesOf[p], w)
    BY <1>3 DEF UpdatePlan
  <2>2. /\ given \subseteq given' /\ recorded \subseteq recorded' /\ (vouched => vouched')
        /\ \A f \in FeaturesOf[p] : Granted(f)'
        /\ w = "active" => Paid'
    BY <2>1, GivesGrants
  <2>3. s = "active" => Paid'
    BY <2>2, GrantsLast DEF GrantInv
  <2> QED BY <2>1, <2>2, <2>3, FlaggedGrants DEF GrantInv
<1>4. ASSUME NEW p \in Plans \cup {tenant.plan}, NEW s \in OperatorStatuses \cup {tenant.status},
             ProvisionMechanic(p, s)
      PROVE  GrantInv'
  <2> DEFINE w == IF s = tenant.status THEN "kept" ELSE s
             fs == IF tenant = NoTenant THEN MechanicFeatures ELSE {}
  <2>1. /\ tenant'.features = IF tenant = NoTenant THEN MechanicFeatures ELSE tenant.features
        /\ tenant'.status = s /\ flag' = flag /\ Gives(fs, w)
    BY <1>4 DEF ProvisionMechanic
  <2>2. /\ given \subseteq given' /\ recorded \subseteq recorded' /\ (vouched => vouched')
        /\ \A f \in fs : Granted(f)'
        /\ w = "active" => Paid'
    BY <2>1, GivesGrants
  <2>3. s = "active" => Paid'
    BY <2>2, GrantsLast DEF GrantInv
  <2>4. \A f \in tenant'.features : Granted(f)'
    BY <2>1, <2>2, GrantsLast DEF GrantInv
  <2> QED BY <2>1, <2>2, <2>3, <2>4, GrantsLast DEF GrantInv
<1>5. ASSUME NEW f \in Features, NEW b \in BOOLEAN, SetFlag(f, b)
      PROVE  GrantInv'
  <2> DEFINE fs == IF b THEN {f} ELSE {}
  <2>1. /\ tenant' = tenant /\ Gives(fs, "kept")
        /\ flag' = [flag EXCEPT ![f] = IF b THEN "on" ELSE "off"]
    BY <1>5 DEF SetFlag
  <2>2. /\ given \subseteq given' /\ recorded \subseteq recorded' /\ (vouched => vouched')
        /\ \A g \in fs : Granted(g)'
    BY <2>1, GivesGrants
  <2>3. flag \in [Features -> {"unset", "on", "off"}]
    BY DEF TypeOK, TenantTypeOK
  <2>4. ASSUME NEW g \in Features, flag'[g] = "on" PROVE Granted(g)'
    <3>1. CASE g = f
      BY <2>1, <2>2, <2>3, <2>4, <3>1
    <3>2. CASE g # f
      BY <2>1, <2>2, <2>3, <2>4, <3>2, GrantsLast DEF GrantInv
    <3> QED BY <3>1, <3>2
  <2> QED BY <2>1, <2>2, <2>4, GrantsLast DEF GrantInv
<1> QED BY <1>1, <1>2, <1>3, <1>4, <1>5 DEF OperatorNext

LEMMA GrantStep == TypeOK /\ GrantInv /\ [Next]_vars => GrantInv'
<1> SUFFICES ASSUME TypeOK, GrantInv, [Next]_vars PROVE GrantInv'
  OBVIOUS
<1>1. ASSUME UNCHANGED <<tenantVars, recorded>> PROVE GrantInv'
  BY <1>1 DEF GrantInv, Granted, Paid, tenantVars, operatorVars
<1>2. ASSUME NEW j \in Jobs, Serve(j) PROVE GrantInv'
  BY <1>2, ServesGrants DEF Serve, TypeOK, TenantTypeOK
<1>3. ASSUME NEW h \in Handlers, Finish(h) PROVE GrantInv'
  BY <1>3, ServesGrants, WorkType DEF Finish, TypeOK
<1>4. CASE OperatorNext /\ UNCHANGED stripeVars
  BY <1>4, OperatorGrants DEF stripeVars
<1> QED BY <1>1, <1>2, <1>3, <1>4 DEF Next, StripeNext, StripeMoves, Begin, Abort, vars, stripeVars

LEMMA GrantInit == Init => GrantInv
BY DEF Init, TenantInit, GrantInv, NoTenant

(* No tenant has a feature that no event of Stripe and no operator gave it. *)
THEOREM PaidForAlways == Spec => []FeaturesArePaidFor
<1>1. TypeOK /\ GrantInv => FeaturesArePaidFor
  BY DEF GrantInv, FeaturesArePaidFor, HasFeature, TypeOK, TenantTypeOK
<1> QED BY <1>1, GrantInit, GrantStep, TypeCorrect, PTL DEF Spec

-----------------------------------------------------------------------------
(* A paying tenant stays live.  The rows that requests hold are older    *)
(* rows of the tenant, so that the invariant speaks of them as well: a row *)
(* is live only after an event, and a request that holds one that is not   *)
(* live has no column to write that takes life away.                       *)
Quiet == acts = 0 /\ \A e \in sent : e.what \in ActiveStatuses \cup {"checkout"}
Live(r) == r.active /\ r.status \in ActiveStatuses
Waiting(r) == ~r.active /\ (r = NoTenant \/ r.status = "pending_checkout")

PayInv ==
  /\ recorded \subseteq sent
  /\ \A h \in Handlers : work[h].job \in Events => work[h].job \in sent
  /\ Quiet => /\ recorded = {} => Waiting(tenant)
              /\ recorded # {} => Live(tenant)
              /\ \A h \in Handlers : Live(work[h].tenant) \/ Waiting(work[h].tenant)
              /\ \A h \in Handlers : Live(work[h].tenant) => recorded # {}
              /\ \A h \in Handlers : work[h].tenant # NoTenant => tenant # NoTenant

LEMMA QuietBefore ==
  ASSUME sent \subseteq sent', acts' = acts, Quiet'
  PROVE  Quiet
BY DEF Quiet

(* A write of a request that holds row t. *)
LEMMA WrittenStatus ==
  ASSUME NEW t, NEW n, tenant' = Written(t, n)
  PROVE  /\ tenant'.status = Column(t.status, n.status, tenant.status)
         /\ tenant'.active = Column(t.active, n.active, tenant.active)
BY DEF Written

LEMMA LiveIsSomeone == \A r : Live(r) => r # NoTenant
BY DEF Live, NoTenant

LEMMA PendingIsSomeone == \A r : r.status = "pending_checkout" => r # NoTenant
BY DEF NoTenant

(* A request that brings the tenant to life does so from any row. *)
LEMMA WrittenLive ==
  ASSUME NEW t \in TenantRow, NEW n, tenant' = Written(t, n), n.active = TRUE,
         n.status \in ActiveStatuses, Live(t) \/ Waiting(t), Live(t) => Live(tenant)
  PROVE  Live(tenant')
<1>1. CASE Live(t)
  BY <1>1, RowType, WrittenStatus DEF Column, Live
<1>2. CASE Waiting(t)
  <2>1. t.active = FALSE /\ t.status \in {"absent", "pending_checkout"}
    BY <1>2, RowType DEF Waiting, NoTenant
  <2> QED BY <2>1, WrittenStatus DEF Column, Live, ActiveStatuses
<1> QED BY <1>1, <1>2

(* A checkout leaves a tenant that lives alone, and has any other wait. *)
LEMMA CheckoutPays ==
  ASSUME TypeOK, PayInv, Quiet, NEW j, NEW t \in TenantRow, OpenCheckout(j, t),
         Live(t) \/ Waiting(t), Live(t) => recorded # {}, t # NoTenant => tenant # NoTenant
  PROVE  /\ tenant' # NoTenant
         /\ recorded = {} => Waiting(tenant')
         /\ recorded # {} => Live(tenant')
<1> DEFINE n == Awaiting(t, j.plan)
<1>1. tenant' = Written(t, n) /\ (t = NoTenant => tenant = NoTenant)
  BY DEF OpenCheckout
<1>2. /\ recorded = {} => Waiting(tenant)
      /\ recorded # {} => Live(tenant) /\ tenant # NoTenant
  BY LiveIsSomeone DEF PayInv
<1>3. CASE Live(t)
  <2>1. n.status = t.status /\ n.active = t.active
    BY <1>3 DEF Live, Awaiting
  <2>2. tenant'.status = tenant.status /\ tenant'.active = tenant.active
    BY <1>1, <2>1, WrittenStatus DEF Column
  <2>3. Live(tenant')
    BY <1>2, <1>3, <2>2 DEF Live
  <2> QED BY <1>3, <2>3, LiveIsSomeone
<1>4. CASE Waiting(t)
  <2>1. t.active = FALSE /\ (t = NoTenant \/ t.status = "pending_checkout")
    BY <1>4, RowType DEF Waiting
  <2>2. t.status \notin ActiveStatuses
    BY <2>1 DEF NoTenant, ActiveStatuses
  <2>3. n.status = "pending_checkout" /\ n.active = FALSE
    BY <2>2 DEF Awaiting
  <2>4. tenant'.active = tenant.active
    BY <1>1, <2>1, <2>3, WrittenStatus DEF Column
  <2>5. CASE t = NoTenant
    <3>1. t.status = "absent" /\ tenant = NoTenant
      BY <1>1, <2>5 DEF NoTenant
    <3>2. tenant'.status = "pending_checkout"
      BY <1>1, <2>3, <3>1, WrittenStatus DEF Column
    <3>3. ~tenant'.active /\ recorded = {}
      BY <1>2, <2>4, <3>1 DEF NoTenant
    <3> QED BY <3>2, <3>3, PendingIsSomeone DEF Waiting
  <2>6. CASE t # NoTenant
    <3>1. t.status = "pending_checkout" /\ tenant # NoTenant
      BY <2>1, <2>6
    <3>2. tenant'.status = tenant.status
      BY <1>1, <2>3, <3>1, WrittenStatus DEF Column
    <3>3. CASE recorded = {}
      <4>1. ~tenant.active /\ tenant.status = "pending_checkout"
        BY <1>2, <3>1, <3>3 DEF Waiting
      <4> QED BY <2>4, <3>2, <3>3, <4>1, PendingIsSomeone DEF Waiting
    <3>4. CASE recorded # {}
      <4>1. Live(tenant')
        BY <1>2, <2>4, <3>2, <3>4 DEF Live
      <4> QED BY <3>4, <4>1, LiveIsSomeone
    <3> QED BY <3>3, <3>4
  <2> QED BY <2>5, <2>6
<1> QED BY <1>3, <1>4

(* A request keeps the tenant waiting or live, whatever row it holds. *)
LEMMA ServesPays ==
  ASSUME TypeOK, PayInv, Quiet, NEW j, NEW t \in TenantRow, Serves(j, t),
         Live(t) \/ Waiting(t), Live(t) => recorded # {}, t # NoTenant => tenant # NoTenant,
         j \in Events => j \in sent
  PROVE  /\ recorded \subseteq recorded'
         /\ tenant' # NoTenant
         /\ recorded' = {} => Waiting(tenant')
         /\ recorded' # {} => Live(tenant')
<1>0. Live(t) => Live(tenant)
  BY DEF PayInv
<1>1. CASE OpenCheckout(j, t)
  BY <1>1, CheckoutPays DEF OpenCheckout
<1>2. CASE CheckoutCompleted(j, t)
  <2>1. /\ recorded' = recorded \cup {j} /\ tenant' = Written(t, PaidFor(t, j.plan))
        /\ PaidFor(t, j.plan).active = TRUE /\ PaidFor(t, j.plan).status \in ActiveStatuses
    BY <1>2 DEF CheckoutCompleted, Recorded, PaidFor, ActiveStatuses
  <2>2. Live(tenant')
    BY <1>0, <2>1, WrittenLive
  <2> QED BY <2>1, <2>2, LiveIsSomeone
<1>3. CASE SubscriptionSynced(j, t)
  <2> DEFINE n == Synced(t, j.plan, j.what)
  <2>1. recorded' = recorded \cup {j} /\ tenant' = Written(t, n)
    BY <1>3 DEF SubscriptionSynced, Recorded
  <2>2. j.what \in ActiveStatuses
    BY <1>3 DEF SubscriptionSynced, Quiet
  <2>3. n.active = TRUE /\ n.status \in ActiveStatuses
    BY <2>2 DEF Synced
  <2>4. Live(tenant')
    BY <1>0, <2>1, <2>3, WrittenLive
  <2> QED BY <2>1, <2>4, LiveIsSomeone
<1> QED BY <1>1, <1>2, <1>3 DEF Serves

(* What is recorded was sent, and so was what a handler works on. *)
LEMMA SentStep ==
  ASSUME TypeOK, PayInv, [Next]_vars
  PROVE  /\ sent \subseteq sent'
         /\ recorded' \subseteq sent'
         /\ \A h \in Handlers : work'[h].job \in Events => work'[h].job \in sent'
<1> USE DEF PayInv
<1>0. ASSUME NEW j, NEW t, Serves(j, t), j \in Events => j \in sent
      PROVE  sent' = sent /\ recorded' \subseteq sent
  BY <1>0 DEF Serves, OpenCheckout, CheckoutCompleted, SubscriptionSynced, Recorded
<1>1. ASSUME NEW h \in Handlers, Ends(h), sent \subseteq sent'
      PROVE  \A g \in Handlers : work'[g].job \in Events => work'[g].job \in sent'
  <2>1. work'[h].job \notin Events
    BY <1>1, SMT DEF Ends, Idle, NoJob, Events, EventKinds, StripeStatuses, TypeOK, StripeTypeOK
  <2>2. \A g \in Handlers \ {h} : work'[g] = work[g]
    BY <1>1 DEF Ends, TypeOK, StripeTypeOK
  <2> QED BY <1>1, <2>1, <2>2
<1>2. ASSUME NEW s \in Subscriptions, StripeMoves(s)
      PROVE  sent \subseteq sent' /\ recorded' = recorded /\ work' = work
  BY <1>2 DEF StripeMoves
<1>3. ASSUME NEW j \in Jobs, Serve(j)
      PROVE  sent' = sent /\ recorded' \subseteq sent /\ work' = work
  <2>1. j \in Events => j \in sent
    BY <1>3, EventType DEF Serve, Wanted, EventKinds, StripeStatuses
  <2> QED BY <1>0, <1>3, <2>1 DEF Serve
<1>4. ASSUME NEW h \in Handlers, NEW j \in Jobs, Begin(h, j)
      PROVE  /\ sent' = sent /\ recorded' = recorded
             /\ \A g \in Handlers : work'[g].job \in Events => work'[g].job \in sent
  <2>1. j \in Events => j \in sent
    BY <1>4, EventType DEF Begin, Wanted, EventKinds, StripeStatuses
  <2>2. \A g \in Handlers : work'[g].job \in {j, work[g].job}
    BY <1>4 DEF Begin, TypeOK, StripeTypeOK
  <2> QED BY <1>4, <2>1, <2>2 DEF Begin
<1>5. ASSUME NEW h \in Handlers, Finish(h)
      PROVE  /\ sent' = sent /\ recorded' \subseteq sent
             /\ \A g \in Handlers : work'[g].job \in Events => work'[g].job \in sent
  BY <1>0, <1>1, <1>5 DEF Finish
<1>6. ASSUME NEW h \in Handlers, Abort(h)
      PROVE  /\ sent' = sent /\ recorded' = recorded
             /\ \A g \in Handlers : work'[g].job \in Events => work'[g].job \in sent
  BY <1>1, <1>6 DEF Abort
<1>7. CASE UNCHANGED stripeVars
  BY <1>7 DEF stripeVars
<1> QED BY <1>2, <1>3, <1>4, <1>5, <1>6, <1>7 DEF Next, StripeNext, vars

(* What a step leaves of what a paying tenant's invariant needs. *)
LEMMA PayStep == TypeOK /\ PayInv /\ [Next]_vars => PayInv'
<1> SUFFICES ASSUME TypeOK, PayInv, [Next]_vars PROVE PayInv'
  OBVIOUS
<1> DEFINE Rows == /\ recorded = {} => Waiting(tenant)
                   /\ recorded # {} => Live(tenant)
                   /\ \A h \in Handlers : Live(work[h].tenant) \/ Waiting(work[h].tenant)
                   /\ \A h \in Handlers : Live(work[h].tenant) => recorded # {}
                   /\ \A h \in Handlers : work[h].tenant # NoTenant => tenant # NoTenant
<1> SUFFICES ASSUME Quiet' PROVE Rows'
  BY SentStep DEF PayInv
<1>1. acts' = acts
  <2>1. CASE OperatorNext
    <3>1. acts' = acts + 1
      BY <2>1 DEF OperatorNext, ProvisionTenant, ShopSnapshot, UpdatePlan, ProvisionMechanic,
                  SetFlag, Gives
    <3> QED BY <3>1 DEF Quiet, TypeOK, TenantTypeOK
  <2>2. CASE StripeNext \/ UNCHANGED vars
    BY <2>2 DEF StripeNext, StripeMoves, Serve, Begin, Finish, Serves, Abort, vars,
                tenantVars, operatorVars
  <2> QED BY <2>1, <2>2 DEF Next
<1>2. Quiet /\ Rows
  BY <1>1, SentStep, QuietBefore DEF PayInv
<1>3. ASSUME UNCHANGED <<tenant, recorded, work>> PROVE Rows'
  BY <1>2, <1>3
<1>4. ASSUME NEW j \in Jobs, Serve(j) PROVE Rows'
  <2>1. j \in Events => j \in sent
    BY <1>4, EventType DEF Serve, Wanted, EventKinds, StripeStatuses
  <2>2. /\ Serves(j, tenant) /\ work' = work /\ tenant \in TenantRow
        /\ Live(tenant) \/ Waiting(tenant)
        /\ Live(tenant) => recorded # {}
    BY <1>2, <1>4 DEF Serve, TypeOK, TenantTypeOK, Live, Waiting
  <2>3. /\ recorded \subseteq recorded' /\ tenant' # NoTenant
        /\ recorded' = {} => Waiting(tenant')
        /\ recorded' # {} => Live(tenant')
    BY <1>2, <2>1, <2>2, ServesPays
  <2> QED BY <1>2, <2>2, <2>3
<1>5. ASSUME NEW h \in Handlers, NEW j \in Jobs, Begin(h, j) PROVE Rows'
  <2>1. \A g \in Handlers : work'[g].tenant \in {tenant, work[g].tenant}
    BY <1>5 DEF Begin, TypeOK, StripeTypeOK
  <2>2. recorded' = recorded /\ tenant' = tenant
    BY <1>5 DEF Begin, tenantVars
  <2>3. Live(tenant) => recorded # {}
    BY <1>2, RowType DEF Live, Waiting, TypeOK, TenantTypeOK
  <2>4. Live(tenant) \/ Waiting(tenant)
    BY <1>2
  <2> QED BY <1>2, <2>1, <2>2, <2>3, <2>4
<1>6. ASSUME NEW h \in Handlers, Ends(h), recorded \subseteq recorded',
             tenant # NoTenant => tenant' # NoTenant,
             recorded' = {} => Waiting(tenant'), recorded' # {} => Live(tenant')
      PROVE  Rows'
  <2>1. \A g \in Handlers : work'[g].tenant \in {NoTenant, work[g].tenant}
    BY <1>6 DEF Ends, Idle, TypeOK, StripeTypeOK
  <2>2. Waiting(NoTenant) /\ ~Live(NoTenant)
    BY DEF Waiting, Live, NoTenant
  <2> QED BY <1>2, <1>6, <2>1, <2>2
<1>7. ASSUME NEW h \in Handlers, Finish(h) PROVE Rows'
  <2>1. Serves(work[h].job, work[h].tenant) /\ Ends(h)
    BY <1>7 DEF Finish
  <2>2. work[h].tenant \in TenantRow
    BY WorkType DEF TypeOK
  <2>3. work[h].job \in Events => work[h].job \in sent
    BY DEF PayInv
  <2>4. /\ recorded \subseteq recorded' /\ tenant' # NoTenant
        /\ recorded' = {} => Waiting(tenant')
        /\ recorded' # {} => Live(tenant')
    BY <1>2, <2>1, <2>2, <2>3, ServesPays
  <2> QED BY <1>6, <2>1, <2>4
<1>8. ASSUME NEW h \in Handlers, Abort(h) PROVE Rows'
  <2>1. Ends(h) /\ recorded' = recorded /\ tenant' = tenant
    BY <1>8 DEF Abort, tenantVars
  <2> QED BY <1>2, <1>6, <2>1
<1>9. CASE OperatorNext
  <2>1. acts' = acts + 1
    BY <1>9 DEF OperatorNext, ProvisionTenant, ShopSnapshot, UpdatePlan, ProvisionMechanic,
                SetFlag, Gives
  <2> QED BY <1>1, <2>1 DEF TypeOK, TenantTypeOK
<1>10. CASE UNCHANGED vars
  BY <1>3, <1>10 DEF vars, tenantVars, stripeVars
<1>11. ASSUME NEW s \in Subscriptions, StripeMoves(s) PROVE Rows'
  BY <1>3, <1>11 DEF StripeMoves, tenantVars
<1> HIDE DEF Rows
<1> QED BY <1>4, <1>5, <1>7, <1>8, <1>9, <1>10, <1>11 DEF Next, StripeNext

LEMMA PayInit == Init => PayInv
<1> SUFFICES ASSUME Init PROVE PayInv
  OBVIOUS
<1>1. Waiting(NoTenant) /\ ~Live(NoTenant)
  BY DEF Waiting, Live, NoTenant
<1>2. \A h \in Handlers : work[h].tenant = NoTenant /\ work[h].job = NoJob
  BY DEF Init, StripeInit, Idle
<1>3. NoJob \notin Events
  BY SMT DEF NoJob, Events, EventKinds, StripeStatuses
<1> QED BY <1>1, <1>2, <1>3 DEF Init, TenantInit, StripeInit, PayInv

-----------------------------------------------------------------------------
(* What access needs besides a live row: only a report of a trial makes    *)
(* the status "trialing", and no request takes back the flag of a feature  *)
(* that was paid for or tried.  Neither is said of the rows requests hold: *)
(* a request writes no status but its own and never the column it read.    *)
AccessInv ==
  acts = 0 =>
    /\ tenant.status = "trialing" => \E e \in recorded : e.what = "trialing"
    /\ \A e \in recorded : e.what \in ActiveStatuses \cup {"checkout"}
                            => \A f \in FeaturesOf[e.plan] : flag[f] = "on"

(* The status a request writes is its own or the row's. *)
LEMMA WrittenTrial ==
  ASSUME NEW t, NEW n, tenant' = Written(t, n), tenant'.status = "trialing"
  PROVE  tenant.status = "trialing" \/ (n.status = "trialing" /\ n.status # t.status)
BY WrittenStatus DEF Column

(* The flags of a plan go up, and those that are up stay. *)
LEMMA FlagsStay ==
  ASSUME TypeOK, NEW fs \in SUBSET Features, flag' = Flagged(fs)
  PROVE  /\ \A f \in fs : flag'[f] = "on"
         /\ \A f \in Features : flag[f] = "on" => flag'[f] = "on"
BY DEF Flagged, TypeOK, TenantTypeOK

LEMMA ServesAccess ==
  ASSUME TypeOK, AccessInv, NEW j, NEW t \in TenantRow, Serves(j, t)
  PROVE  AccessInv'
<1> SUFFICES ASSUME acts = 0
             PROVE  /\ tenant'.status = "trialing" => \E e \in recorded' : e.what = "trialing"
                    /\ \A e \in recorded' : e.what \in ActiveStatuses \cup {"checkout"}
                                             => \A f \in FeaturesOf[e.plan] : flag'[f] = "on"
  BY DEF AccessInv, Serves, operatorVars
<1>0. /\ tenant.status = "trialing" => \E e \in recorded : e.what = "trialing"
      /\ \A e \in recorded : e.what \in ActiveStatuses \cup {"checkout"}
                              => \A f \in FeaturesOf[e.plan] : flag[f] = "on"
      /\ recorded \subseteq Events
  BY DEF AccessInv, TypeOK, StripeTypeOK
<1>f. ASSUME NEW e \in Events PROVE FeaturesOf[e.plan] \in SUBSET Features
  BY <1>f, EventType, PlansAssumption
<1>1. CASE OpenCheckout(j, t)
  <2>1. /\ tenant' = Written(t, Awaiting(t, j.plan)) /\ flag' = flag /\ recorded' = recorded
        /\ Awaiting(t, j.plan).status \in {t.status, "pending_checkout"}
    BY <1>1 DEF OpenCheckout, Awaiting
  <2>2. tenant'.status = "trialing" => tenant.status = "trialing"
    BY <2>1, WrittenTrial
  <2> QED BY <1>0, <2>1, <2>2
<1>2. CASE CheckoutCompleted(j, t)
  <2>1. /\ tenant' = Written(t, PaidFor(t, j.plan)) /\ flag' = Flagged(FeaturesOf[j.plan])
        /\ recorded' = recorded \cup {j} /\ j \in Events
        /\ PaidFor(t, j.plan).status = "active"
    BY <1>2 DEF CheckoutCompleted, Recorded, PaidFor
  <2>2. tenant'.status = "trialing" => tenant.status = "trialing"
    BY <2>1, WrittenTrial
  <2>3. /\ \A f \in FeaturesOf[j.plan] : flag'[f] = "on"
        /\ \A f \in Features : flag[f] = "on" => flag'[f] = "on"
    BY <1>f, <2>1, FlagsStay
  <2> QED BY <1>0, <1>f, <2>1, <2>2, <2>3
<1>3. CASE SubscriptionSynced(j, t)
  <2> DEFINE fs == IF j.what \in ActiveStatuses THEN FeaturesOf[j.plan] ELSE {}
  <2>1. /\ tenant' = Written(t, Synced(t, j.plan, j.what)) /\ flag' = Flagged(fs)
        /\ recorded' = recorded \cup {j} /\ j \in Events /\ j.what # "checkout"
        /\ Synced(t, j.plan, j.what).status = j.what
    BY <1>3 DEF SubscriptionSynced, Recorded, Synced
  <2>2. tenant'.status = "trialing" => tenant.status = "trialing" \/ j.what = "trialing"
    BY <2>1, WrittenTrial
  <2>3. fs \in SUBSET Features
    BY <1>f, <2>1
  <2>4. /\ \A f \in fs : flag'[f] = "on"
        /\ \A f \in Features : flag[f] = "on" => flag'[f] = "on"
    BY <2>1, <2>3, FlagsStay
  <2>5. j.what \in ActiveStatuses \cup {"checkout"} => fs = FeaturesOf[j.plan]
    BY <2>1
  <2> HIDE DEF fs
  <2> QED BY <1>0, <1>f, <2>1, <2>2, <2>4, <2>5
<1> QED BY <1>1, <1>2, <1>3 DEF Serves

LEMMA AccessStep == TypeOK /\ AccessInv /\ [Next]_vars => AccessInv'
<1> SUFFICES ASSUME TypeOK, AccessInv, [Next]_vars PROVE AccessInv'
  OBVIOUS
<1>1. ASSUME UNCHANGED <<tenantVars, recorded>> PROVE AccessInv'
  BY <1>1 DEF AccessInv, tenantVars, operatorVars
<1>2. ASSUME NEW j \in Jobs, Serve(j) PROVE AccessInv'
  BY <1>2, ServesAccess DEF Serve, TypeOK, TenantTypeOK
<1>3. ASSUME NEW h \in Handlers, Finish(h) PROVE AccessInv'
  BY <1>3, ServesAccess, WorkType DEF Finish, TypeOK
<1>4. CASE OperatorNext
  <2>1. acts' = acts + 1
    BY <1>4 DEF OperatorNext, ProvisionTenant, ShopSnapshot, UpdatePlan, ProvisionMechanic,
                SetFlag, Gives
  <2>2. acts' # 0
    BY <2>1 DEF TypeOK, TenantTypeOK
  <2> QED BY <2>2 DEF AccessInv
<1> QED BY <1>1, <1>2, <1>3, <1>4 DEF Next, StripeNext, StripeMoves, Begin, Abort, vars, stripeVars

LEMMA AccessInit == Init => AccessInv
BY DEF Init, TenantInit, StripeInit, AccessInv, NoTenant

(* Without an operator's act, a subscription that lives keeps the tenant's *)
(* access from the first event on, but for the reports of trials.          *)
THEOREM OnlyTrialsLockOutAlways == Spec => []OnlyTrialsLockOut
<1>1. TypeOK /\ PayInv /\ AccessInv => OnlyTrialsLockOut
  <2> SUFFICES ASSUME TypeOK, PayInv, AccessInv, Quiet, recorded # {}
               PROVE  tenant.active /\ (HasAccess \/ LockedOutByTrial)
    BY DEF OnlyTrialsLockOut, Quiet
  <2>1. tenant.active /\ tenant.status \in {"active", "trialing"}
    BY DEF PayInv, Live, ActiveStatuses
  <2>2. CASE tenant.status = "trialing"
    BY <2>1, <2>2 DEF AccessInv, Quiet, LockedOutByTrial
  <2>3. CASE tenant.status = "active"
    <3>1. ASSUME NEW e \in recorded, NEW f \in FeaturesOf[e.plan]
          PROVE  flag[f] = "on"
      BY DEF PayInv, Quiet, AccessInv
    <3> QED BY <2>1, <2>3, <3>1 DEF HasAccess, HasFeature
  <2> QED BY <2>1, <2>2, <2>3
<1> QED BY <1>1, PayInit, PayStep, AccessInit, AccessStep, TypeCorrect, PTL DEF Spec
=============================================================================
