---------------------------- MODULE JobDispatch ----------------------------
(***************************************************************************)
(* One roadside job from intake to arrival: the columns of its row, its    *)
(* dispatch attempts, its tracking sessions and its payment.  Every HTTP   *)
(* handler runs in one database transaction and is one action here; what   *)
(* happens when the transactions of several mechanics overlap is the       *)
(* subject of OfferTransactions.                                           *)
(*                                                                         *)
(* Scores, coordinates and messages are left out: a wave picks any set of  *)
(* candidates of the right size, and a position is one of a few places.    *)
(***************************************************************************)
EXTENDS StripePayments, Naturals, FiniteSets

CONSTANTS
  Mechanics,    \* the active mechanics of the directory
  NoMechanic,   \* assigned_mechanic_id is NULL
  Places,       \* the positions the driver can share
  Nowhere,      \* driver_lat and driver_lng are NULL
  InBox,        \* InBox[p]: the mechanics in the bounding box around place p
  InState,      \* the mechanics based in the driver's state
  Counts,       \* the wave sizes a caller of start-sms can ask for
  BatchSize,    \* settings.DISPATCH_BATCH_SIZE
  Responses,    \* the words a mechanic's answer arrives as
  AutoAssign    \* settings.DEMO_AUTO_ASSIGN_NEAREST_MECHANIC

ASSUME MechanicsAssumption == NoMechanic \notin Mechanics
ASSUME PlacesAssumption == Nowhere \notin Places
ASSUME InBoxAssumption == InBox \in [Places -> SUBSET Mechanics]
ASSUME CountsAssumption == Counts \subseteq Nat /\ BatchSize \in Nat
ASSUME AutoAssignAssumption == AutoAssign \in BOOLEAN

VARIABLES
  status,       \* jobs.status
  place,        \* jobs.driver_lat, driver_lng
  area,         \* which of jobs.driver_city and driver_state are set
  assigned,     \* jobs.assigned_mechanic_id
  eta,          \* jobs.driver_eta_decision
  offers,       \* each mechanic's dispatch attempt, "none" without one
  tracking      \* each mechanic's tracking session, "absent" without one

boardVars == <<assigned, eta, offers, tracking>>
jobVars == <<status, place, area, boardVars>>
vars == <<jobVars, paymentVars>>

JobStatus == {"awaiting_driver_location", "awaiting_payment_authorization",
              "payment_authorized", "matching_mechanics", "calling_mechanics",
              "mechanic_assigned", "mechanic_en_route", "mechanic_arrived"}

Open == {"queued", "calling"}

TurnedDown == {"declined", "unavailable", "no_answer", "timed_out"}

OfferStatus == Open \cup TurnedDown \cup {"accepted", "superseded"}

Live == {"pending", "active", "arrived"}

TrackingStatus == Live \cup {"ended"}

AreaParts == {"city", "state"}

EtaDecision == {"none", "pending", "accepted", "rejected"}

JobTypeOK ==
  /\ status \in JobStatus
  /\ place \in Places \cup {Nowhere}
  /\ area \subseteq AreaParts
  /\ assigned \in Mechanics \cup {NoMechanic}
  /\ eta \in EtaDecision
  /\ offers \in [Mechanics -> OfferStatus \cup {"none"}]
  /\ tracking \in [Mechanics -> TrackingStatus \cup {"absent"}]

TypeOK == JobTypeOK /\ PaymentTypeOK

\* create_job: intake may already know the driver's city or state.
Init ==
  /\ PaymentInit
  /\ status = "awaiting_driver_location"
  /\ place = Nowhere
  /\ area \in SUBSET AreaParts
  /\ assigned = NoMechanic
  /\ eta = "none"
  /\ offers = [m \in Mechanics |-> "none"]
  /\ tracking = [m \in Mechanics |-> "absent"]

(***************************************************************************)
(* Candidates and waves.                                                   *)
(***************************************************************************)
Located == place # Nowhere

AreaKnown == area = AreaParts

OpenOffers == {m \in Mechanics : offers[m] \in Open}

Uncontacted == {m \in Mechanics : offers[m] = "none"}

\* Mutant: only open and accepted attempts keep a mechanic out of a wave.
ReachableAfterDecline(p) ==
  {m \in Mechanics : offers[m] \in {"none"} \cup TurnedDown /\ (p # Nowhere => m \in InBox[p])}

Reachable(p) == {m \in Uncontacted : p # Nowhere => m \in InBox[p]}

\* The mechanics of the driver's state come first; the others only when none is left.
Preferred(p) ==
  LET near == Reachable(p) \cap InState
  IN IF "state" \in area /\ near # {} THEN near ELSE Reachable(p)

\* Mutant: a job without any location is ranked against the whole directory.
RankedAnywhere(p) == Preferred(p)

Ranked(p) == IF p = Nowhere /\ ~AreaKnown THEN {} ELSE Preferred(p)

\* The sets of mechanics a wave of n offers can go to.
Waves(n) ==
  LET size == IF n < Cardinality(Ranked(place)) THEN n ELSE Cardinality(Ranked(place))
  IN {S \in SUBSET Ranked(place) : Cardinality(S) = size}

WithOffers(board, S) == [m \in Mechanics |-> IF m \in S THEN "calling" ELSE board[m]]

\* An empty wave leaves the status the caller set.
SendOffers(board, S, idle) ==
  /\ offers' = WithOffers(board, S)
  /\ status' = IF S = {} THEN idle ELSE "calling_mechanics"

\* Mutant: the other open offers stay open.
AssignKeepingOffers(m, newStatus, session) ==
  /\ offers' = [offers EXCEPT ![m] = "accepted"]
  /\ tracking' = [tracking EXCEPT ![m] = session]
  /\ assigned' = m
  /\ eta' = "pending"
  /\ status' = newStatus

\* The acceptance branch of record_mechanic_response.
Assign(m, newStatus, session) ==
  /\ offers' = [k \in Mechanics |->
                  IF k = m THEN "accepted"
                  ELSE IF offers[k] \in Open THEN "superseded"
                  ELSE offers[k]]
  /\ tracking' = [tracking EXCEPT ![m] = session]
  /\ assigned' = m
  /\ eta' = "pending"
  /\ status' = newStatus

(***************************************************************************)
(* Location.                                                               *)
(***************************************************************************)
StatusOnceLocated ==
  CASE status # "awaiting_driver_location" -> status
    [] SkipPayment -> "matching_mechanics"
    [] OTHER -> "awaiting_payment_authorization"

CanAutoAssign(p) == AutoAssign /\ assigned = NoMechanic /\ Ranked(p) # {}

\* The driver's browser shares a position. In demo mode the nearest mechanic
\* is offered the job, accepts it and starts driving in the same request.
UpdateDriverLocation(p) ==
  /\ place' = p
  /\ IF SkipPayment /\ status = "awaiting_driver_location"
       THEN DemoAuthorize
       ELSE UNCHANGED paymentVars
  /\ \/ /\ CanAutoAssign(p)
        /\ \E m \in Ranked(p) : Assign(m, "mechanic_en_route", "active")
     \/ /\ ~CanAutoAssign(p)
        /\ status' = StatusOnceLocated
        /\ UNCHANGED boardVars
  /\ UNCHANGED area

\* The voice agent collects what the driver can say of the place.
ManualLocation(parts) ==
  /\ area' = area \cup parts
  /\ status' = "matching_mechanics"
  /\ UNCHANGED <<place, boardVars, paymentVars>>

(***************************************************************************)
(* Payment.                                                                *)
(***************************************************************************)
CreatePaymentIntent ==
  /\ status \in {"awaiting_payment_authorization", "awaiting_driver_location"}
  /\ CreateIntent
  /\ UNCHANGED jobVars

\* The voice agent's tool has no guard on the job's status.
RequestPayment ==
  /\ payStatus # "authorized"
  /\ CreateIntent
  /\ UNCHANGED jobVars

\* The confirmation starts dispatch itself once the driver is located.
ConfirmPayment ==
  /\ ConfirmIntent
  /\ \/ /\ payStatus' \in Paid
        /\ Located
        /\ \E S \in Waves(BatchSize) : SendOffers(offers, S, "matching_mechanics")
     \/ /\ payStatus' \in Paid
        /\ ~Located
        /\ status' = "payment_authorized"
        /\ UNCHANGED offers
     \/ /\ payStatus' \notin Paid
        /\ UNCHANGED <<status, offers>>
  /\ UNCHANGED <<place, area, assigned, eta, tracking>>

\* A webhook advances the status but never starts dispatch.
StripeWebhook(e) ==
  /\ HandleStripeEvent(e)
  /\ status' = IF /\ e.type = "amount_capturable_updated"
                  /\ payStatus # "authorized"
                  /\ status = "awaiting_payment_authorization"
               THEN "payment_authorized"
               ELSE status
  /\ UNCHANGED <<place, area, boardVars>>

(***************************************************************************)
(* Dispatch.                                                               *)
(***************************************************************************)
StartDispatch ==
  /\ payStatus \in Paid
  /\ status \in {"payment_authorized", "matching_mechanics", "calling_mechanics"}
  /\ status' = "matching_mechanics"
  /\ UNCHANGED <<place, area, boardVars, paymentVars>>

\* start-sms, and the voice agent's dispatch tool: no payment gate, any status.
StartSms(n) ==
  /\ \E S \in Waves(n) :
       SendOffers(offers, S, IF status = "calling_mechanics" THEN status ELSE "matching_mechanics")
  /\ UNCHANGED <<place, area, assigned, eta, tracking, paymentVars>>

DispatchNext ==
  /\ \E m \in Ranked(place) : SendOffers(offers, {m}, status)
  /\ UNCHANGED <<place, area, assigned, eta, tracking, paymentVars>>

\* Mutant: the word is stored as it came.
OutcomeVerbatim(r) == r

\* A word outside the documented ones counts as "declined", without a next wave.
Outcome(r) == IF r \in TurnedDown THEN r ELSE "declined"

Accepts(m) == Assign(m, "mechanic_assigned", "pending")

\* Mutant: a call that nobody answers in time does not move on to the next wave.
TurnsDownSilently(m, r) ==
  LET closed == [offers EXCEPT ![m] = Outcome(r)]
      movesOn == r \in TurnedDown \ {"timed_out"} /\ assigned = NoMechanic /\ OpenOffers = {m}
  IN \/ movesOn /\ \E S \in Waves(BatchSize) : SendOffers(closed, S, status)
     \/ ~movesOn /\ offers' = closed /\ UNCHANGED status

\* Mutant: the next wave does not wait for the offers that are still open.
TurnsDownAtOnce(m, r) ==
  LET closed == [offers EXCEPT ![m] = Outcome(r)]
      movesOn == r \in TurnedDown /\ assigned = NoMechanic
  IN \/ movesOn /\ \E S \in Waves(BatchSize) : SendOffers(closed, S, status)
     \/ ~movesOn /\ offers' = closed /\ UNCHANGED status

\* The last open offer of an unassigned job brings the next wave.
TurnsDown(m, r) ==
  LET closed == [offers EXCEPT ![m] = Outcome(r)]
      movesOn == r \in TurnedDown /\ assigned = NoMechanic /\ OpenOffers = {m}
  IN \/ movesOn /\ \E S \in Waves(BatchSize) : SendOffers(closed, S, status)
     \/ ~movesOn /\ offers' = closed /\ UNCHANGED status

\* An answer to an offer that is no longer open changes nothing.
MechanicResponds(m, r) ==
  /\ offers[m] \in Open
  /\ \/ r = "accepted" /\ Accepts(m)
     \/ r # "accepted" /\ TurnsDown(m, r) /\ UNCHANGED <<assigned, eta, tracking>>
  /\ UNCHANGED <<place, area, paymentVars>>

(***************************************************************************)
(* The driver's decision on the arrival time.                              *)
(***************************************************************************)
DriverAcceptsEta ==
  /\ eta' = "accepted"
  /\ UNCHANGED <<status, place, area, assigned, offers, tracking, paymentVars>>

\* Mutant: the released mechanic's acceptance stays on record.
DriverRejectsEtaKeepsOffer ==
  /\ assigned' = NoMechanic
  /\ status' = "matching_mechanics"
  /\ eta' = "rejected"
  /\ tracking' = [m \in Mechanics |-> IF tracking[m] = "absent" THEN "absent" ELSE "ended"]
  /\ UNCHANGED <<place, area, offers, paymentVars>>

\* Mutant: the released mechanic's session keeps running.
DriverRejectsEtaKeepsSession ==
  /\ assigned' = NoMechanic
  /\ status' = "matching_mechanics"
  /\ eta' = "rejected"
  /\ offers' = [m \in Mechanics |-> IF offers[m] = "accepted" THEN "declined" ELSE offers[m]]
  /\ UNCHANGED <<tracking, place, area, paymentVars>>

DriverRejectsEta ==
  /\ assigned' = NoMechanic
  /\ status' = "matching_mechanics"
  /\ eta' = "rejected"
  /\ offers' = [m \in Mechanics |-> IF offers[m] = "accepted" THEN "declined" ELSE offers[m]]
  /\ tracking' = [m \in Mechanics |-> IF tracking[m] = "absent" THEN "absent" ELSE "ended"]
  /\ UNCHANGED <<place, area, paymentVars>>

\* The driver picks another mechanic, inside the bounding box or not.
RematchSelect(m) ==
  /\ eta = "rejected"
  /\ status \in {"matching_mechanics", "calling_mechanics"}
  /\ assigned = NoMechanic
  /\ m \in Uncontacted
  /\ Located \/ AreaKnown
  /\ SendOffers(offers, {m}, status)
  /\ eta' = "none"
  /\ UNCHANGED <<place, area, assigned, tracking, paymentVars>>

(***************************************************************************)
(* The drive to the driver.                                                *)
(***************************************************************************)

\* Mutant: the mechanic's session is not looked up.
ArrivalWithoutSession ==
  /\ assigned # NoMechanic
  /\ Located
  /\ status = "mechanic_en_route"
  /\ status' = "mechanic_arrived"
  /\ UNCHANGED <<place, area, boardVars, paymentVars>>

\* Whoever polls the tracking view while the mechanic is within the threshold.
TrackingArrival ==
  /\ assigned # NoMechanic
  /\ Located
  /\ status = "mechanic_en_route"
  /\ status' = "mechanic_arrived"
  /\ tracking' = [tracking EXCEPT ![assigned] =
                    IF tracking[assigned] = "absent" THEN "absent" ELSE "arrived"]
  /\ UNCHANGED <<place, area, assigned, eta, offers, paymentVars>>

\* The voice agent confirms; nobody need be assigned.
ConfirmDispatch ==
  /\ status \in {"mechanic_assigned", "payment_authorized", "matching_mechanics",
                 "calling_mechanics"}
  /\ status' = "mechanic_en_route"
  /\ UNCHANGED <<place, area, boardVars, paymentVars>>

Next ==
  \/ \E p \in Places : UpdateDriverLocation(p)
  \/ \E parts \in SUBSET AreaParts : ManualLocation(parts)
  \/ CreatePaymentIntent
  \/ RequestPayment
  \/ ConfirmPayment
  \/ \E e \in events : StripeWebhook(e)
  \/ StartDispatch
  \/ \E n \in Counts : StartSms(n)
  \/ DispatchNext
  \/ \E m \in Mechanics, r \in Responses : MechanicResponds(m, r)
  \/ DriverAcceptsEta
  \/ DriverRejectsEta
  \/ \E m \in Mechanics : RematchSelect(m)
  \/ TrackingArrival
  \/ ConfirmDispatch
  \/ StripeMoves /\ UNCHANGED jobVars

Spec == Init /\ [][Next]_vars
=============================================================================
