-------------------------- MODULE JobDispatchProofs --------------------------
(***************************************************************************)
(* The job keeps its types, its assignment stays backed by the tables that *)
(* describe it, closed offers stay closed, and the whole job implements    *)
(* both the payment component and the dispatch contract.                   *)
(***************************************************************************)
EXTENDS JobDispatchProps, PaymentProofs, FiniteSetTheorems

\* What every mechanic of a wave is: active, uncontacted, and found because
\* the job has a location of some kind.
LEMMA RankedAreUncontacted ==
  ASSUME NEW p, NEW m \in Ranked(p)
  PROVE  /\ m \in Mechanics /\ offers[m] = "none"
         /\ p # Nowhere \/ AreaKnown
BY DEF Ranked, Preferred, Reachable, Uncontacted

LEMMA WavesAreUncontacted ==
  ASSUME NEW n, NEW S \in Waves(n)
  PROVE  /\ S \subseteq Uncontacted
         /\ S # {} => Located \/ AreaKnown
BY RankedAreUncontacted DEF Waves, Uncontacted, Located, AreaKnown

-----------------------------------------------------------------------------
(***************************************************************************)
(* Types.                                                                  *)
(***************************************************************************)

\* The payment half of a handler keeps the types of the payment columns.
LEMMA PaymentTypeStep ==
  ASSUME PaymentTypeOK, [PaymentNext]_paymentVars
  PROVE  PaymentTypeOK'
<1> USE DEF PaymentTypeOK, PaymentStatus, StripeStatus, EventType, Event
<1>1. CASE UNCHANGED paymentVars
  BY <1>1 DEF paymentVars
<1>2. CASE CreateIntent
  BY <1>2 DEF CreateIntent
<1>3. CASE ConfirmIntent
  BY <1>3 DEF ConfirmIntent, Verdict
<1>4. CASE \E e \in events : HandleStripeEvent(e)
  BY <1>4 DEF HandleStripeEvent, EventVerdict
<1>5. CASE DemoAuthorize
  BY <1>5 DEF DemoAuthorize
<1>6. CASE StripeMoves
  BY <1>6 DEF StripeMoves, DriverAuthorizes, CardRefused, OperatorCaptures,
              IntentCanceled, StripeStep
<1> QED
  BY <1>1, <1>2, <1>3, <1>4, <1>5, <1>6 DEF PaymentNext

\* Every handler of the job is a step of the payment component or leaves it alone.
LEMMA StepIsPaymentStep == [Next]_vars => [PaymentNext]_paymentVars
<1> SUFFICES ASSUME [Next]_vars PROVE [PaymentNext]_paymentVars
  OBVIOUS
<1> USE DEF paymentVars, jobVars, boardVars, vars
<1>1. CASE UNCHANGED vars
  BY <1>1
<1>2. ASSUME NEW p \in Places, UpdateDriverLocation(p) PROVE [PaymentNext]_paymentVars
  BY <1>2 DEF UpdateDriverLocation, PaymentNext
<1>3. ASSUME NEW parts \in SUBSET AreaParts, ManualLocation(parts) PROVE [PaymentNext]_paymentVars
  BY <1>3 DEF ManualLocation
<1>4. CASE CreatePaymentIntent \/ RequestPayment \/ ConfirmPayment
  BY <1>4 DEF CreatePaymentIntent, RequestPayment, ConfirmPayment, PaymentNext
<1>5. CASE \E e \in events : StripeWebhook(e)
  BY <1>5 DEF StripeWebhook, PaymentNext
<1>6. CASE StartDispatch \/ (\E n \in Counts : StartSms(n)) \/ DispatchNext
  BY <1>6 DEF StartDispatch, StartSms, DispatchNext
<1>7. CASE \E m \in Mechanics, r \in Responses : MechanicResponds(m, r)
  BY <1>7 DEF MechanicResponds
<1>8. CASE DriverAcceptsEta \/ DriverRejectsEta
  BY <1>8 DEF DriverAcceptsEta, DriverRejectsEta
<1>9. CASE (\E m \in Mechanics : RematchSelect(m)) \/ TrackingArrival \/ ConfirmDispatch
  BY <1>9 DEF RematchSelect, TrackingArrival, ConfirmDispatch
<1>10. CASE StripeMoves /\ UNCHANGED jobVars
  BY <1>10 DEF PaymentNext
<1> QED
  BY <1>1, <1>2, <1>3, <1>4, <1>5, <1>6, <1>7, <1>8, <1>9, <1>10 DEF Next

\* The composed job implements the payment component, so what is proved of the
\* component holds of the job.
THEOREM ImplementsPayments == Spec => PaymentSpec
<1>1. Init => PaymentInit
  BY DEF Init
<1> QED
  BY <1>1, StepIsPaymentStep, PTL DEF Spec, PaymentSpec

-----------------------------------------------------------------------------
(***************************************************************************)
(* The job's own tables.                                                   *)
(*                                                                         *)
(* The five invariants are proved together: that an arrival is tracked     *)
(* rests on the assignment being backed by a session, and all of them rest *)
(* on the types.                                                           *)
(***************************************************************************)
BoardInv ==
  /\ AssignmentBacked
  /\ AssignedClosesOffers
  /\ EtaFollowsAssignment
  /\ ArrivalIsTracked
  /\ OffersNeedLocation

JobInv == JobTypeOK /\ BoardInv

\* An acceptance makes its mechanic the assigned one and closes the open offers.
LEMMA AssignKeepsJobInv ==
  ASSUME NEW m \in Mechanics,
         NEW newStatus \in {"mechanic_assigned", "mechanic_en_route"},
         NEW session \in Live,
         JobTypeOK, Assign(m, newStatus, session),
         place' \in Places \cup {Nowhere}, area' \subseteq AreaParts,
         place' # Nowhere \/ AreaKnown'
  PROVE  JobInv'
<1> USE MechanicsAssumption
<1>1. /\ \A k \in Mechanics : offers'[k] = IF k = m THEN "accepted"
                                         ELSE IF offers[k] \in Open THEN "superseded"
                                         ELSE offers[k]
      /\ offers' \in [Mechanics -> OfferStatus \cup {"none"}]
      /\ tracking' \in [Mechanics -> TrackingStatus \cup {"absent"}]
      /\ tracking'[m] = session
      /\ assigned' = m /\ eta' = "pending" /\ status' = newStatus
  BY DEF Assign, JobTypeOK, OfferStatus, Open, TrackingStatus, Live
<1>2. JobTypeOK'
  BY <1>1 DEF JobTypeOK, JobStatus, EtaDecision
<1>3. AssignmentBacked' /\ EtaFollowsAssignment'
  BY <1>1 DEF AssignmentBacked, EtaFollowsAssignment
<1>4. AssignedClosesOffers'
  BY <1>1 DEF AssignedClosesOffers, OpenOffers, Open
<1>5. ArrivalIsTracked' /\ OffersNeedLocation'
  BY <1>1 DEF ArrivalIsTracked, OffersNeedLocation, Located, AreaKnown
<1> QED
  BY <1>2, <1>3, <1>4, <1>5 DEF JobInv, BoardInv

\* Offers to mechanics nobody contacted disturb no assignment.
LEMMA SendOffersKeepsJobInv ==
  ASSUME NEW S \in SUBSET Uncontacted,
         NEW board \in [Mechanics -> OfferStatus \cup {"none"}],
         NEW idle \in JobStatus,
         JobInv,
         \A m \in Mechanics : /\ board[m] = "accepted" <=> offers[m] = "accepted"
                              /\ board[m] = "none" <=> offers[m] = "none"
                              /\ board[m] \in Open => offers[m] \in Open,
         SendOffers(board, S, idle),
         S = {} => idle \in {status, "matching_mechanics"},
         S # {} => Located \/ AreaKnown,
         UNCHANGED <<place, area, assigned, eta, tracking>>
  PROVE  JobInv'
<1> USE MechanicsAssumption DEF JobInv, BoardInv
<1>1. /\ \A m \in Mechanics : offers'[m] = IF m \in S THEN "calling" ELSE board[m]
      /\ offers' \in [Mechanics -> OfferStatus \cup {"none"}]
      /\ status' = IF S = {} THEN idle ELSE "calling_mechanics"
  BY DEF SendOffers, WithOffers, OfferStatus, Open
<1>2. JobTypeOK'
  BY <1>1 DEF JobTypeOK, JobStatus
<1>3. AssignmentBacked' /\ EtaFollowsAssignment'
  BY <1>1 DEF JobTypeOK, AssignmentBacked, EtaFollowsAssignment, Uncontacted, Live
<1>4. AssignedClosesOffers'
  BY <1>1 DEF AssignedClosesOffers, OpenOffers
<1>5. ArrivalIsTracked'
  BY <1>1 DEF ArrivalIsTracked
<1>6. OffersNeedLocation'
  <2>1. CASE place' # Nowhere \/ AreaKnown'
    BY <2>1 DEF OffersNeedLocation, Located, AreaKnown
  <2>2. CASE ~(Located \/ AreaKnown)
    <3>1. S = {} /\ \A m \in Mechanics : offers[m] = "none"
      BY <2>2 DEF OffersNeedLocation
    <3>2. \A m \in Mechanics : offers'[m] = "none"
      BY <1>1, <3>1 DEF OfferStatus, Open, TurnedDown
    <3> QED
      BY <1>1, <3>1, <3>2 DEF OffersNeedLocation
  <2> QED
    BY <2>1, <2>2 DEF Located, AreaKnown
<1> QED
  BY <1>2, <1>3, <1>4, <1>5, <1>6

\* A step that only moves the status, out of what an assignment or an arrival
\* stands for, keeps the invariant.
LEMMA StatusKeepsJobInv ==
  ASSUME JobInv,
         status' \in {status, "awaiting_payment_authorization", "payment_authorized",
                      "matching_mechanics", "mechanic_en_route"},
         place' \in Places \cup {Nowhere}, area' \subseteq AreaParts,
         Located \/ AreaKnown => place' # Nowhere \/ AreaKnown',
         UNCHANGED boardVars
  PROVE  JobInv'
<1> USE DEF JobInv, BoardInv, boardVars
<1>1. JobTypeOK'
  BY DEF JobTypeOK, JobStatus
<1>2. AssignmentBacked' /\ EtaFollowsAssignment'
  BY DEF AssignmentBacked, EtaFollowsAssignment
<1>3. AssignedClosesOffers' /\ ArrivalIsTracked'
  BY DEF AssignedClosesOffers, ArrivalIsTracked, OpenOffers
<1>4. OffersNeedLocation'
  <2>1. CASE place' # Nowhere \/ AreaKnown'
    BY <2>1 DEF OffersNeedLocation, Located, AreaKnown
  <2>2. CASE ~(Located \/ AreaKnown)
    <3>1. ~ \E m \in Mechanics : offers[m] # "none"
      BY <2>2 DEF OffersNeedLocation
    <3> QED
      BY <3>1, <2>1 DEF OffersNeedLocation
  <2> QED
    BY <2>1, <2>2 DEF Located, AreaKnown
<1> QED
  BY <1>1, <1>2, <1>3, <1>4

\* A mechanic's answer, whatever the word.
LEMMA AnswerKeepsJobInv ==
  ASSUME NEW m \in Mechanics, NEW r, JobInv, MechanicResponds(m, r)
  PROVE  JobInv'
<1> USE DEF JobInv
<1>1. UNCHANGED <<place, area>> /\ offers[m] \in Open
  BY DEF MechanicResponds
<1>2. Located \/ AreaKnown
  BY <1>1 DEF BoardInv, OffersNeedLocation, Open
<1>3. CASE Accepts(m)
  BY <1>1, <1>2, <1>3, AssignKeepsJobInv DEF Accepts, JobTypeOK, Live, Located, AreaKnown
<1>4. CASE TurnsDown(m, r) /\ UNCHANGED <<assigned, eta, tracking>>
  <2> DEFINE closed == [offers EXCEPT ![m] = Outcome(r)]
  <2>1. /\ closed \in [Mechanics -> OfferStatus \cup {"none"}]
        /\ \A k \in Mechanics : closed[k] = IF k = m THEN Outcome(r) ELSE offers[k]
        /\ Outcome(r) \in TurnedDown
    BY DEF Outcome, JobTypeOK, OfferStatus, TurnedDown
  <2>2. \A k \in Mechanics : /\ closed[k] = "accepted" <=> offers[k] = "accepted"
                             /\ closed[k] = "none" <=> offers[k] = "none"
                             /\ closed[k] \in Open => offers[k] \in Open
    BY <2>1, <1>1 DEF TurnedDown, Open
  <2>3. PICK S \in SUBSET Uncontacted :
          SendOffers(closed, S, status) /\ (S # {} => Located \/ AreaKnown)
    <3>1. CASE \E S \in Waves(BatchSize) : SendOffers(closed, S, status)
      BY <3>1, WavesAreUncontacted
    <3>2. CASE offers' = closed /\ UNCHANGED status
      <4>1. WithOffers(closed, {}) = closed
        BY <2>1 DEF WithOffers
      <4> QED
        BY <3>2, <4>1 DEF SendOffers
    <3> QED
      BY <1>4, <3>1, <3>2 DEF TurnsDown
  <2> HIDE DEF closed
  <2> QED
    BY <1>1, <1>4, <2>1, <2>2, <2>3, SendOffersKeepsJobInv DEF JobTypeOK
<1> QED
  BY <1>3, <1>4 DEF MechanicResponds

\* The driver's decision releases exactly the mechanic who had accepted.
LEMMA RejectionKeepsJobInv ==
  ASSUME JobInv, DriverRejectsEta
  PROVE  JobInv'
<1> USE DEF JobInv
<1>1. /\ offers' \in [Mechanics -> OfferStatus \cup {"none"}]
      /\ tracking' \in [Mechanics -> TrackingStatus \cup {"absent"}]
      /\ \A m \in Mechanics :
           /\ offers'[m] = IF offers[m] = "accepted" THEN "declined" ELSE offers[m]
           /\ tracking'[m] \in {"absent", "ended"}
      /\ assigned' = NoMechanic /\ status' = "matching_mechanics" /\ eta' = "rejected"
      /\ place' = place /\ area' = area
  BY DEF DriverRejectsEta, JobTypeOK, OfferStatus, TurnedDown, TrackingStatus
<1>2. JobTypeOK'
  BY <1>1 DEF JobTypeOK, JobStatus, EtaDecision
<1>3. AssignmentBacked' /\ EtaFollowsAssignment'
  BY <1>1, MechanicsAssumption DEF AssignmentBacked, EtaFollowsAssignment, Live
<1>4. AssignedClosesOffers' /\ ArrivalIsTracked'
  BY <1>1 DEF AssignedClosesOffers, ArrivalIsTracked
<1>5. OffersNeedLocation'
  <2>1. CASE Located \/ AreaKnown
    BY <1>1, <2>1 DEF OffersNeedLocation, Located, AreaKnown
  <2>2. CASE ~(Located \/ AreaKnown)
    <3>1. \A m \in Mechanics : offers[m] = "none"
      BY <2>2 DEF BoardInv, OffersNeedLocation
    <3> QED
      BY <1>1, <3>1 DEF OffersNeedLocation
  <2> QED
    BY <2>1, <2>2
<1> QED
  BY <1>2, <1>3, <1>4, <1>5 DEF BoardInv

\* The mechanic the driver picks after a rejection.
LEMMA RematchKeepsJobInv ==
  ASSUME NEW m \in Mechanics, JobInv, RematchSelect(m)
  PROVE  JobInv'
<1> USE DEF JobInv, BoardInv
<1>1. /\ offers' \in [Mechanics -> OfferStatus \cup {"none"}]
      /\ \A k \in Mechanics : offers'[k] = IF k = m THEN "calling" ELSE offers[k]
      /\ status' = "calling_mechanics" /\ eta' = "none" /\ assigned = NoMechanic
      /\ UNCHANGED <<place, area, assigned, tracking>>
      /\ Located \/ AreaKnown
  BY DEF RematchSelect, SendOffers, WithOffers, JobTypeOK, OfferStatus, Open
<1>2. JobTypeOK'
  BY <1>1 DEF JobTypeOK, JobStatus, EtaDecision
<1>3. AssignmentBacked' /\ EtaFollowsAssignment'
  BY <1>1 DEF AssignmentBacked, EtaFollowsAssignment
<1>4. AssignedClosesOffers' /\ ArrivalIsTracked' /\ OffersNeedLocation'
  BY <1>1 DEF AssignedClosesOffers, ArrivalIsTracked, OffersNeedLocation, Located, AreaKnown
<1> QED
  BY <1>2, <1>3, <1>4

\* The mechanic who arrives is the one that is assigned and tracked.
LEMMA ArrivalKeepsJobInv ==
  ASSUME JobInv, TrackingArrival
  PROVE  JobInv'
<1> USE DEF JobInv, BoardInv
<1>1. /\ assigned \in Mechanics
      /\ tracking' \in [Mechanics -> TrackingStatus \cup {"absent"}]
      /\ \A m \in Mechanics : tracking'[m] = IF m = assigned THEN "arrived" ELSE tracking[m]
      /\ status' = "mechanic_arrived"
      /\ UNCHANGED <<place, area, assigned, eta, offers>>
      /\ Located
  <2>1. /\ assigned # NoMechanic /\ Located /\ status' = "mechanic_arrived"
        /\ tracking' = [tracking EXCEPT ![assigned] =
                          IF tracking[assigned] = "absent" THEN "absent" ELSE "arrived"]
        /\ UNCHANGED <<place, area, assigned, eta, offers>>
    BY DEF TrackingArrival
  <2>2. assigned \in Mechanics /\ tracking \in [Mechanics -> TrackingStatus \cup {"absent"}]
    BY <2>1 DEF JobTypeOK
  <2>3. "arrived" \in TrackingStatus
    BY DEF TrackingStatus, Live
  <2>4. tracking[assigned] # "absent"
    BY <2>1 DEF AssignmentBacked, Live
  <2> QED
    BY <2>1, <2>2, <2>3, <2>4
<1>2. JobTypeOK'
  BY <1>1 DEF JobTypeOK, JobStatus
<1>3. AssignmentBacked' /\ EtaFollowsAssignment'
  BY <1>1, MechanicsAssumption DEF AssignmentBacked, EtaFollowsAssignment, Live
<1>4. AssignedClosesOffers' /\ ArrivalIsTracked' /\ OffersNeedLocation'
  BY <1>1, MechanicsAssumption
  DEF AssignedClosesOffers, ArrivalIsTracked, OffersNeedLocation, Located, AreaKnown
<1> QED
  BY <1>2, <1>3, <1>4

\* The driver's position: a status, or in demo mode a whole assignment.
LEMMA LocationKeepsJobInv ==
  ASSUME NEW p \in Places, JobInv, UpdateDriverLocation(p)
  PROVE  JobInv'
<1> USE PlacesAssumption
<1>1. place' = p /\ p # Nowhere /\ area' = area
  BY DEF UpdateDriverLocation
<1>2. CASE \E m \in Ranked(p) : Assign(m, "mechanic_en_route", "active")
  <2>1. PICK m \in Ranked(p) : Assign(m, "mechanic_en_route", "active")
    BY <1>2
  <2>2. m \in Mechanics
    BY RankedAreUncontacted
  <2> QED
    BY <1>1, <2>1, <2>2, AssignKeepsJobInv DEF JobInv, JobTypeOK, Live
<1>3. CASE status' = StatusOnceLocated /\ UNCHANGED boardVars
  <2>1. status' \in {status, "matching_mechanics", "awaiting_payment_authorization"}
    BY <1>3 DEF StatusOnceLocated
  <2> QED
    BY <1>1, <1>3, <2>1, StatusKeepsJobInv DEF JobInv, JobTypeOK
<1> QED
  BY <1>2, <1>3 DEF UpdateDriverLocation

\* A confirmed payment starts dispatch when the driver is located.
LEMMA ConfirmationKeepsJobInv ==
  ASSUME JobInv, ConfirmPayment
  PROVE  JobInv'
<1>1. UNCHANGED <<place, area, assigned, eta, tracking>>
  BY DEF ConfirmPayment
<1>2. CASE Located /\ \E S \in Waves(BatchSize) : SendOffers(offers, S, "matching_mechanics")
  BY <1>1, <1>2, WavesAreUncontacted, SendOffersKeepsJobInv DEF JobInv, JobTypeOK, JobStatus
<1>3. CASE status' \in {status, "payment_authorized"} /\ UNCHANGED offers
  BY <1>1, <1>3, StatusKeepsJobInv DEF JobInv, JobTypeOK, boardVars, Located, AreaKnown
<1> QED
  BY <1>2, <1>3 DEF ConfirmPayment

\* The waves that a caller asks for.
LEMMA WaveKeepsJobInv ==
  ASSUME JobInv, (\E n \in Counts : StartSms(n)) \/ DispatchNext
  PROVE  JobInv'
<1>1. UNCHANGED <<place, area, assigned, eta, tracking>>
  BY DEF StartSms, DispatchNext
<1>2. ASSUME NEW n \in Counts, StartSms(n) PROVE JobInv'
  BY <1>1, <1>2, WavesAreUncontacted, SendOffersKeepsJobInv
  DEF StartSms, JobInv, JobTypeOK, JobStatus
<1>3. CASE DispatchNext
  <2>1. PICK m \in Ranked(place) : SendOffers(offers, {m}, status)
    BY <1>3 DEF DispatchNext
  <2>2. {m} \in SUBSET Uncontacted /\ (Located \/ AreaKnown)
    BY RankedAreUncontacted DEF Uncontacted, Located, AreaKnown
  <2> QED
    BY <1>1, <2>1, <2>2, SendOffersKeepsJobInv DEF JobInv, JobTypeOK
<1> QED
  BY <1>2, <1>3

LEMMA StepKeepsJobInv == JobInv /\ [Next]_vars => JobInv'
<1> SUFFICES ASSUME JobInv, [Next]_vars PROVE JobInv'
  OBVIOUS
<1> USE DEF vars, jobVars, boardVars
<1>1. ASSUME UNCHANGED jobVars PROVE JobInv'
  BY <1>1, StatusKeepsJobInv DEF JobInv, JobTypeOK, Located, AreaKnown
<1>2. ASSUME NEW parts \in SUBSET AreaParts, ManualLocation(parts) PROVE JobInv'
  BY <1>2, StatusKeepsJobInv DEF ManualLocation, JobInv, JobTypeOK, Located, AreaKnown
<1>3. ASSUME NEW e \in events, StripeWebhook(e) PROVE JobInv'
  BY <1>3, StatusKeepsJobInv DEF StripeWebhook, JobInv, JobTypeOK, Located, AreaKnown
<1>4. CASE StartDispatch \/ ConfirmDispatch
  BY <1>4, StatusKeepsJobInv DEF StartDispatch, ConfirmDispatch, JobInv, JobTypeOK, Located, AreaKnown
<1>5. CASE DriverAcceptsEta
  <2>1. UNCHANGED <<status, place, area, assigned, offers, tracking>> /\ eta' = "accepted"
    BY <1>5 DEF DriverAcceptsEta
  <2> QED
    BY <2>1 DEF JobInv, JobTypeOK, BoardInv, EtaDecision, AssignmentBacked,
                AssignedClosesOffers, EtaFollowsAssignment, ArrivalIsTracked,
                OffersNeedLocation, OpenOffers, Located, AreaKnown
<1>6. CASE CreatePaymentIntent \/ RequestPayment \/ UNCHANGED vars
        \/ (StripeMoves /\ UNCHANGED jobVars)
  BY <1>1, <1>6 DEF CreatePaymentIntent, RequestPayment
<1> QED
  BY <1>2, <1>3, <1>4, <1>5, <1>6, LocationKeepsJobInv, ConfirmationKeepsJobInv,
     WaveKeepsJobInv, AnswerKeepsJobInv, RejectionKeepsJobInv, RematchKeepsJobInv,
     ArrivalKeepsJobInv
  DEF Next

\* The inductive invariant of the job.
THEOREM JobInvariant == Spec => []JobInv
<1>1. Init => JobInv
  BY DEF Init, JobInv, JobTypeOK, BoardInv, JobStatus, EtaDecision,
         AssignmentBacked, AssignedClosesOffers, EtaFollowsAssignment,
         ArrivalIsTracked, OffersNeedLocation
<1> QED
  BY <1>1, StepKeepsJobInv, PTL DEF Spec

\* Every column keeps its type, whatever the handlers are called with.
THEOREM TypeCorrect == Spec => []TypeOK
<1>1. PaymentInv /\ JobInv => TypeOK
  BY DEF PaymentInv, JobInv, TypeOK
<1> QED
  BY <1>1, JobInvariant, ImplementsPayments, PaymentInvariant, PTL

\* The job is right about its money: the component's theorem, lifted to the job.
THEOREM JobPaymentIsReal == Spec => []PaymentIsReal
BY ImplementsPayments, PaymentIsRealAlways, PTL

\* An assigned mechanic has accepted and is tracked, and while nobody is
\* assigned nobody holds an acceptance.
THEOREM AssignmentIsBacked == Spec => []AssignmentBacked
<1>1. JobInv => AssignmentBacked
  BY DEF JobInv, BoardInv
<1> QED
  BY <1>1, JobInvariant, PTL

\* While the job says "assigned" nobody else can answer.
THEOREM AssignmentClosesOffers == Spec => []AssignedClosesOffers
<1>1. JobInv => AssignedClosesOffers
  BY DEF JobInv, BoardInv
<1> QED
  BY <1>1, JobInvariant, PTL

\* The driver's decision is about the mechanic of the moment.
THEOREM DecisionFollowsAssignment == Spec => []EtaFollowsAssignment
<1>1. JobInv => EtaFollowsAssignment
  BY DEF JobInv, BoardInv
<1> QED
  BY <1>1, JobInvariant, PTL

\* An arrival is the tracked arrival of the assigned mechanic.
THEOREM ArrivalsAreTracked == Spec => []ArrivalIsTracked
<1>1. JobInv => ArrivalIsTracked
  BY DEF JobInv, BoardInv
<1> QED
  BY <1>1, JobInvariant, PTL

\* Nobody is contacted for a job that is nowhere.
THEOREM ContactNeedsLocation == Spec => []OffersNeedLocation
<1>1. JobInv => OffersNeedLocation
  BY DEF JobInv, BoardInv
<1> QED
  BY <1>1, JobInvariant, PTL

-----------------------------------------------------------------------------
(***************************************************************************)
(* What a step may not undo.                                               *)
(*                                                                         *)
(* An acceptance writes a tracking session blindly; that it never brings   *)
(* an ended session back takes one more invariant: who can still accept    *)
(* has no session yet.                                                     *)
(***************************************************************************)
CanAccept(m) == offers[m] \in Open \cup {"none"}

SessionsFollowAcceptance == \A m \in Mechanics : CanAccept(m) => tracking[m] = "absent"

GivenTo(m) ==
  \E newStatus \in JobStatus, session \in Live : Assign(m, newStatus, session)

\* What a step can do to the board, every status aside.
BoardStep ==
  \/ UNCHANGED <<assigned, offers, tracking>>
  \/ \E m \in Mechanics : CanAccept(m) /\ GivenTo(m)
  \/ /\ \E S \in SUBSET Uncontacted : S # {} /\ offers' = WithOffers(offers, S)
     /\ UNCHANGED <<assigned, tracking>>
  \/ /\ \E m \in OpenOffers, r \in TurnedDown : offers' = [offers EXCEPT ![m] = r]
     /\ UNCHANGED <<assigned, tracking>>
  \/ /\ \E m \in Mechanics, r \in TurnedDown, S \in SUBSET Uncontacted :
          /\ OpenOffers = {m} /\ assigned = NoMechanic /\ S # {}
          /\ offers' = WithOffers([offers EXCEPT ![m] = r], S)
     /\ UNCHANGED <<assigned, tracking>>
  \/ DriverRejectsEta
  \/ TrackingArrival

\* A wave goes to mechanics nobody contacted, or to nobody.
LEMMA SendOffersIsBoardStep ==
  ASSUME JobTypeOK, NEW S \in SUBSET Uncontacted, NEW idle, SendOffers(offers, S, idle),
         UNCHANGED <<assigned, tracking>>
  PROVE  BoardStep
<1>1. CASE S = {}
  <2>1. WithOffers(offers, {}) = offers
    BY DEF WithOffers, JobTypeOK
  <2> QED
    BY <1>1, <2>1 DEF SendOffers, BoardStep
<1>2. CASE S # {}
  BY <1>2 DEF SendOffers, BoardStep
<1> QED
  BY <1>1, <1>2

\* A refusal closes the offer, and brings a wave only when it was the last one.
LEMMA AnswerIsBoardStep ==
  ASSUME JobTypeOK, NEW m \in Mechanics, NEW r, MechanicResponds(m, r)
  PROVE  BoardStep
<1>1. m \in OpenOffers
  BY DEF MechanicResponds, OpenOffers
<1>2. CASE Accepts(m)
  <2>1. GivenTo(m)
    BY <1>2 DEF Accepts, GivenTo, JobStatus, Live
  <2> QED
    BY <1>1, <2>1 DEF OpenOffers, CanAccept, BoardStep
<1>3. CASE TurnsDown(m, r) /\ UNCHANGED <<assigned, eta, tracking>>
  <2> DEFINE closed == [offers EXCEPT ![m] = Outcome(r)]
  <2>1. Outcome(r) \in TurnedDown
    BY DEF Outcome, TurnedDown
  <2>2. CASE offers' = closed
    BY <1>1, <1>3, <2>1, <2>2 DEF BoardStep
  <2>3. CASE /\ assigned = NoMechanic /\ OpenOffers = {m}
             /\ \E S \in Waves(BatchSize) : SendOffers(closed, S, status)
    <3>1. PICK S \in SUBSET Uncontacted : offers' = WithOffers(closed, S)
      BY <2>3, WavesAreUncontacted DEF SendOffers
    <3>2. CASE S = {}
      <4>1. WithOffers(closed, {}) = closed
        BY DEF WithOffers, JobTypeOK
      <4> QED
        BY <2>2, <3>1, <3>2, <4>1
    <3>3. CASE S # {}
      BY <1>3, <2>1, <2>3, <3>1, <3>3 DEF BoardStep
    <3> QED
      BY <3>2, <3>3
  <2> QED
    BY <1>3, <2>2, <2>3 DEF TurnsDown
<1> QED
  BY <1>2, <1>3 DEF MechanicResponds

LEMMA StepIsBoardStep == JobTypeOK /\ [Next]_vars => BoardStep
<1> SUFFICES ASSUME JobTypeOK, [Next]_vars PROVE BoardStep
  OBVIOUS
<1> USE DEF jobVars, boardVars, vars
<1>1. ASSUME UNCHANGED boardVars \/ DriverAcceptsEta PROVE BoardStep
  BY <1>1 DEF DriverAcceptsEta, BoardStep
<1>2. ASSUME NEW p \in Places, UpdateDriverLocation(p) PROVE BoardStep
  <2>1. CASE \E m \in Ranked(p) : Assign(m, "mechanic_en_route", "active")
    <3>1. PICK m \in Ranked(p) : Assign(m, "mechanic_en_route", "active")
      BY <2>1
    <3>2. m \in Mechanics /\ CanAccept(m)
      BY RankedAreUncontacted DEF CanAccept
    <3>3. GivenTo(m)
      BY <3>1 DEF GivenTo, JobStatus, Live
    <3> QED
      BY <3>2, <3>3 DEF BoardStep
  <2> QED
    BY <1>1, <1>2, <2>1 DEF UpdateDriverLocation
<1>3. CASE ConfirmPayment \/ \E n \in Counts : StartSms(n)
  BY <1>1, <1>3, WavesAreUncontacted, SendOffersIsBoardStep DEF ConfirmPayment, StartSms
<1>4. ASSUME NEW m \in Mechanics, RematchSelect(m) \/ (m \in Ranked(place) /\ DispatchNext)
      PROVE  BoardStep
  <2>1. PICK k \in Uncontacted : SendOffers(offers, {k}, status)
    BY <1>4, RankedAreUncontacted DEF RematchSelect, DispatchNext, Uncontacted
  <2>2. UNCHANGED <<assigned, tracking>>
    BY <1>4 DEF RematchSelect, DispatchNext
  <2> QED
    BY <2>1, <2>2, SendOffersIsBoardStep
<1>5. CASE DispatchNext
  BY <1>4, <1>5, RankedAreUncontacted DEF DispatchNext
<1>6. CASE DriverRejectsEta \/ TrackingArrival
  BY <1>6 DEF BoardStep
<1>7. CASE \/ \E parts \in SUBSET AreaParts : ManualLocation(parts)
           \/ CreatePaymentIntent \/ RequestPayment \/ UNCHANGED vars
           \/ \E e \in events : StripeWebhook(e)
           \/ StartDispatch \/ ConfirmDispatch \/ (StripeMoves /\ UNCHANGED jobVars)
  BY <1>1, <1>7 DEF ManualLocation, CreatePaymentIntent, RequestPayment, StripeWebhook,
                    StartDispatch, ConfirmDispatch
<1> QED
  BY <1>1, <1>2, <1>3, <1>4, <1>5, <1>6, <1>7, AnswerIsBoardStep DEF Next

\* What each kind of step leaves of an offer and of a session.
LEMMA BoardStepEffect ==
  ASSUME JobInv, SessionsFollowAcceptance, BoardStep, NEW m \in Mechanics
  PROVE  /\ CanAccept(m)' => CanAccept(m) /\ tracking'[m] = "absent"
         /\ offers[m] \in TurnedDown \cup {"superseded"} => offers'[m] = offers[m]
         /\ tracking[m] = "ended" => tracking'[m] = "ended"
<1> USE DEF JobInv, CanAccept, SessionsFollowAcceptance
<1>1. CASE UNCHANGED <<assigned, offers, tracking>>
  BY <1>1
<1>2. CASE \E k \in Mechanics : CanAccept(k) /\ GivenTo(k)
  <2>1. PICK k \in Mechanics, newStatus \in JobStatus, session \in Live :
          CanAccept(k) /\ Assign(k, newStatus, session)
    BY <1>2 DEF GivenTo
  <2>2. /\ offers'[m] = IF m = k THEN "accepted"
                        ELSE IF offers[m] \in Open THEN "superseded" ELSE offers[m]
        /\ tracking'[m] = IF m = k THEN session ELSE tracking[m]
    BY <2>1 DEF Assign, JobTypeOK
  <2> QED
    BY <2>1, <2>2 DEF Open, TurnedDown
<1>3. CASE /\ \E S \in SUBSET Uncontacted : S # {} /\ offers' = WithOffers(offers, S)
           /\ UNCHANGED <<assigned, tracking>>
  BY <1>3 DEF WithOffers, Uncontacted, Open, TurnedDown
<1>4. CASE /\ \E k \in OpenOffers, r \in TurnedDown : offers' = [offers EXCEPT ![k] = r]
           /\ UNCHANGED <<assigned, tracking>>
  BY <1>4 DEF OpenOffers, Open, TurnedDown, JobTypeOK
<1>5. CASE /\ \E k \in Mechanics, r \in TurnedDown, S \in SUBSET Uncontacted :
                /\ OpenOffers = {k} /\ assigned = NoMechanic /\ S # {}
                /\ offers' = WithOffers([offers EXCEPT ![k] = r], S)
           /\ UNCHANGED <<assigned, tracking>>
  <2>1. PICK k \in OpenOffers, r \in TurnedDown, S \in SUBSET Uncontacted :
          offers' = WithOffers([offers EXCEPT ![k] = r], S)
    BY <1>5
  <2>2. offers'[m] = IF m \in S THEN "calling" ELSE IF m = k THEN r ELSE offers[m]
    BY <2>1 DEF WithOffers, JobTypeOK
  <2> QED
    BY <1>5, <2>1, <2>2 DEF OpenOffers, Uncontacted, Open, TurnedDown
<1>6. CASE DriverRejectsEta
  BY <1>6 DEF DriverRejectsEta, Open, TurnedDown
<1>7. CASE TrackingArrival
  BY <1>7 DEF TrackingArrival, JobTypeOK, BoardInv, AssignmentBacked, Live, Open
<1> QED
  BY <1>1, <1>2, <1>3, <1>4, <1>5, <1>6, <1>7 DEF BoardStep

LEMMA SessionsFollowAcceptanceAlways == Spec => [](JobInv /\ SessionsFollowAcceptance)
<1>1. Init => SessionsFollowAcceptance
  BY DEF Init, SessionsFollowAcceptance
<1>2. JobInv /\ SessionsFollowAcceptance /\ [Next]_vars => SessionsFollowAcceptance'
  BY StepIsBoardStep, BoardStepEffect DEF SessionsFollowAcceptance, JobInv
<1> QED
  BY <1>1, <1>2, JobInvariant, PTL DEF Spec

\* Whoever turned the job down, or was passed over, is never asked again, and
\* a session that ended never runs again.
THEOREM ClosedNeverReopens == Spec => ClosedStaysClosed
<1> DEFINE Closed == \A m \in Mechanics :
                       /\ offers[m] \in TurnedDown \cup {"superseded"} => offers'[m] = offers[m]
                       /\ tracking[m] = "ended" => tracking'[m] = "ended"
<1>1. JobInv /\ SessionsFollowAcceptance /\ [Next]_vars => Closed
  BY StepIsBoardStep, BoardStepEffect DEF JobInv
<1>2. ClosedStaysClosed <=> [][Closed]_vars
  BY DEF ClosedStaysClosed
<1> QED
  BY <1>1, <1>2, SessionsFollowAcceptanceAlways, PTL DEF Spec

-----------------------------------------------------------------------------
(***************************************************************************)
(* The dispatch contract.                                                  *)
(***************************************************************************)

\* What a step does to the board is a step of the contract, or none.
LEMMA BoardStepIsContractStep ==
  ASSUME JobTypeOK, BoardStep
  PROVE  [Contract!ContractNext]_<<OpenOffers, Mechanics \ Uncontacted, assigned>>
<1> DEFINE contacted == Mechanics \ Uncontacted
<1> USE DEF JobTypeOK
<1>0. Contract!Fresh = Uncontacted
  BY DEF Contract!Fresh, Uncontacted
<1>1. CASE UNCHANGED <<assigned, offers>>
  BY <1>1 DEF OpenOffers, Uncontacted
<1>2. CASE \E m \in Mechanics : CanAccept(m) /\ GivenTo(m)
  <2>1. PICK m \in Mechanics, newStatus \in JobStatus, session \in Live :
          CanAccept(m) /\ Assign(m, newStatus, session)
    BY <1>2 DEF GivenTo
  <2>2. \A k \in Mechanics : offers'[k] = IF k = m THEN "accepted"
                             ELSE IF offers[k] \in Open THEN "superseded" ELSE offers[k]
    BY <2>1 DEF Assign
  <2>3. m \in OpenOffers \cup Uncontacted
    BY <2>1 DEF CanAccept, OpenOffers, Uncontacted
  <2>4. OpenOffers' = {}
    BY <2>2 DEF OpenOffers, Open
  <2>5. contacted' = contacted \cup {m}
    BY <2>2 DEF Uncontacted, Open
  <2>6. Contract!Accept(m)
    BY <2>1, <2>3, <2>4, <2>5, <1>0 DEF Contract!Accept, Assign
  <2> QED
    BY <2>6 DEF Contract!ContractNext
<1>3. ASSUME NEW S \in SUBSET Uncontacted, S # {}, offers' = WithOffers(offers, S),
             assigned' = assigned
      PROVE  Contract!ContractNext
  <2>1. \A k \in Mechanics : offers'[k] = IF k \in S THEN "calling" ELSE offers[k]
    BY <1>3 DEF WithOffers
  <2>2. OpenOffers' = OpenOffers \cup S /\ contacted' = contacted \cup S
    BY <2>1 DEF OpenOffers, Uncontacted, Open
  <2>3. Contract!Offer(S)
    BY <1>3, <2>2, <1>0 DEF Contract!Offer
  <2>4. S \in SUBSET Mechanics
    BY DEF Uncontacted
  <2> QED
    BY <2>3, <2>4 DEF Contract!ContractNext
<1>4. ASSUME NEW m \in OpenOffers, NEW r \in TurnedDown, offers' = [offers EXCEPT ![m] = r],
             assigned' = assigned
      PROVE  Contract!ContractNext
  <2>1. OpenOffers' = OpenOffers \ {m} /\ contacted' = contacted
    BY <1>4 DEF OpenOffers, Uncontacted, Open, TurnedDown
  <2>2. Contract!Close(m) /\ m \in Mechanics
    BY <1>4, <2>1 DEF Contract!Close, OpenOffers
  <2> QED
    BY <2>2 DEF Contract!ContractNext
<1>5. ASSUME NEW m \in Mechanics, NEW r \in TurnedDown, NEW S \in SUBSET Uncontacted,
             OpenOffers = {m}, assigned = NoMechanic, S # {}, assigned' = assigned,
             offers' = WithOffers([offers EXCEPT ![m] = r], S)
      PROVE  Contract!ContractNext
  <2>1. \A k \in Mechanics : offers'[k] = IF k \in S THEN "calling"
                                          ELSE IF k = m THEN r ELSE offers[k]
    BY <1>5 DEF WithOffers
  <2>2. /\ offers[m] \in Open
        /\ \A k \in Mechanics : k # m => offers[k] \notin Open
    BY <1>5 DEF OpenOffers
  <2>3. OpenOffers' = S
    BY <2>1, <2>2 DEF OpenOffers, Uncontacted, Open, TurnedDown
  <2>4. contacted' = contacted \cup S
    BY <2>1, <2>2 DEF Uncontacted, Open, TurnedDown
  <2>5. Contract!CloseAndOffer(m, S)
    BY <1>5, <2>3, <2>4, <1>0 DEF Contract!CloseAndOffer
  <2>6. S \in SUBSET Mechanics
    BY DEF Uncontacted
  <2> QED
    BY <2>5, <2>6 DEF Contract!ContractNext
<1>6. CASE DriverRejectsEta
  <2>1. OpenOffers' = OpenOffers /\ contacted' = contacted
    BY <1>6 DEF DriverRejectsEta, OpenOffers, Uncontacted, Open
  <2>2. Contract!Release
    BY <1>6, <2>1 DEF Contract!Release, DriverRejectsEta
  <2> QED
    BY <2>2 DEF Contract!ContractNext
<1>7. CASE TrackingArrival
  BY <1>1, <1>7 DEF TrackingArrival
<1> QED
  BY <1>1, <1>2, <1>3, <1>4, <1>5, <1>6, <1>7 DEF BoardStep

\* Every behaviour of the job, for any directory and any schedule of handlers,
\* is one of the dispatch contract.
THEOREM ImplementsContract == Spec => KeepsContract
<1>1. Init => Contract!ContractInit
  BY DEF Init, Contract!ContractInit, OpenOffers, Uncontacted, Open
<1>2. JobInv /\ [Next]_vars => [Contract!ContractNext]_(Contract!contractVars)
  BY StepIsBoardStep, BoardStepIsContractStep DEF JobInv, Contract!contractVars
<1> QED
  BY <1>1, <1>2, JobInvariant, PTL DEF Spec, KeepsContract, Contract!ContractSpec

-----------------------------------------------------------------------------
(***************************************************************************)
(* The next wave.                                                          *)
(***************************************************************************)

\* A wave goes to somebody if there is somebody to go to.
LEMMA EmptyWave ==
  ASSUME IsFiniteSet(Mechanics), NEW n \in Nat \ {0}, NEW S \in Waves(n), S = {}
  PROVE  Ranked(place) = {}
<1>1. Ranked(place) \subseteq Mechanics
  BY RankedAreUncontacted
<1>2. IsFiniteSet(Ranked(place))
  BY <1>1, FS_Subset
<1>3. Cardinality(Ranked(place)) \in Nat
  BY <1>2, FS_CardinalityType
<1>4. Cardinality({}) = 0
  BY FS_EmptySet
<1>5. Cardinality(Ranked(place)) = 0
  BY <1>3, <1>4 DEF Waves
<1> QED
  BY <1>2, <1>5, FS_EmptySet

LEMMA SendOffersKeepsOpen ==
  ASSUME NEW S, NEW idle, SendOffers(offers, S, idle)
  PROVE  OpenOffers \subseteq OpenOffers'
BY DEF SendOffers, WithOffers, OpenOffers, Open

\* Only a mechanic who turns the job down closes the last open offer and
\* leaves nobody assigned.
LEMMA OnlyRefusalsClose ==
  ASSUME [Next]_vars, OpenOffers # {}, OpenOffers' = {}, assigned' = NoMechanic
  PROVE  \E m \in Mechanics, r \in Responses \ {"accepted"} :
           MechanicResponds(m, r) /\ TurnsDown(m, r)
<1> SUFFICES ASSUME \A m \in Mechanics, r \in Responses \ {"accepted"} :
                      ~(MechanicResponds(m, r) /\ TurnsDown(m, r))
             PROVE  FALSE
  OBVIOUS
<1>1. offers' # offers
  BY DEF OpenOffers
<1>2. \A S, idle : ~SendOffers(offers, S, idle)
  BY SendOffersKeepsOpen
<1>3. \A m \in Mechanics : \A s, t : ~Assign(m, s, t)
  BY MechanicsAssumption DEF Assign
<1>4. ASSUME NEW p \in Places, UpdateDriverLocation(p) PROVE FALSE
  BY <1>1, <1>3, <1>4, RankedAreUncontacted DEF UpdateDriverLocation, boardVars
<1>5. CASE ConfirmPayment
  BY <1>1, <1>2, <1>5 DEF ConfirmPayment
<1>6. ASSUME NEW n \in Counts, StartSms(n) PROVE FALSE
  BY <1>2, <1>6 DEF StartSms
<1>7. CASE DispatchNext
  BY <1>2, <1>7 DEF DispatchNext
<1>8. ASSUME NEW m \in Mechanics, NEW r \in Responses, MechanicResponds(m, r) PROVE FALSE
  <2>1. CASE r = "accepted"
    BY <1>3, <1>8, <2>1 DEF MechanicResponds, Accepts
  <2>2. CASE r # "accepted"
    BY <1>8, <2>2 DEF MechanicResponds
  <2> QED
    BY <2>1, <2>2
<1>9. CASE DriverRejectsEta
  <2>1. OpenOffers' = OpenOffers
    BY <1>9 DEF DriverRejectsEta, OpenOffers, Open
  <2> QED
    BY <2>1
<1>10. ASSUME NEW m \in Mechanics, RematchSelect(m) PROVE FALSE
  BY <1>2, <1>10 DEF RematchSelect
<1> QED
  BY <1>1, <1>4, <1>5, <1>6, <1>7, <1>8, <1>9, <1>10
  DEF Next, vars, jobVars, boardVars, ManualLocation, CreatePaymentIntent,
      RequestPayment, StripeWebhook, StartDispatch, DriverAcceptsEta, TrackingArrival,
      ConfirmDispatch

\* As long as mechanics answer with the documented words and a wave has room
\* for somebody, whoever closes the last open offer of an unassigned job opens
\* another one or leaves no candidate behind, in any directory. (A word
\* outside them closes the offer and nothing more, see Outcome.)
THEOREM MovesOn ==
  ASSUME Responses \subseteq TurnedDown \cup {"accepted"},
         IsFiniteSet(Mechanics), BatchSize # 0
  PROVE  Spec => MovesOnToNext
<1>1. ASSUME JobInv, [Next]_vars, OpenOffers # {}, OpenOffers' = {},
             assigned' = NoMechanic
      PROVE  Ranked(place)' = {}
  <2>1. PICK m \in Mechanics, r \in Responses \ {"accepted"} :
          MechanicResponds(m, r) /\ TurnsDown(m, r)
    BY <1>1, OnlyRefusalsClose
  <2> DEFINE closed == [offers EXCEPT ![m] = Outcome(r)]
  <2>2. r \in TurnedDown /\ Outcome(r) = r /\ offers[m] \in Open
    BY <2>1 DEF Outcome, MechanicResponds
  <2>3. /\ assigned = NoMechanic /\ place' = place /\ area' = area
        /\ offers \in [Mechanics -> OfferStatus \cup {"none"}]
    BY <1>1, <2>1 DEF MechanicResponds, JobInv, JobTypeOK
  <2>4. OpenOffers = {m}
    <3>1. \A k \in Mechanics \ {m} : offers[k] \notin Open
      <4>1. \A k \in Mechanics : offers'[k] \notin Open
        BY <1>1 DEF OpenOffers
      <4>2. \A k \in Mechanics \ {m} :
              offers'[k] = offers[k] \/ offers'[k] = "calling"
        BY <2>1, <2>3 DEF TurnsDown, SendOffers, WithOffers
      <4> QED
        BY <4>1, <4>2 DEF Open
    <3> QED
      BY <2>2, <3>1 DEF OpenOffers
  <2>5. PICK S \in Waves(BatchSize) : SendOffers(closed, S, status)
    BY <2>1, <2>2, <2>3, <2>4 DEF TurnsDown
  <2>6. S \subseteq Mechanics
    BY RankedAreUncontacted DEF Waves
  <2>7. S = {}
    <3>1. \A k \in S : offers'[k] = "calling"
      BY <2>5, <2>6 DEF SendOffers, WithOffers
    <3> QED
      BY <1>1, <2>6, <3>1 DEF OpenOffers, Open
  <2>8. Ranked(place) = {}
    BY <2>7, CountsAssumption, EmptyWave
  <2>9. Uncontacted' = Uncontacted
    <3>1. \A k \in Mechanics : offers'[k] = IF k = m THEN r ELSE offers[k]
      BY <2>2, <2>3, <2>5, <2>7 DEF SendOffers, WithOffers
    <3> QED
      BY <2>2, <3>1 DEF Uncontacted, Open, TurnedDown
  <2> QED
    BY <2>3, <2>8, <2>9 DEF Ranked, Preferred, Reachable, AreaKnown
<1> QED
  BY <1>1, JobInvariant, PTL DEF Spec, MovesOnToNext
=============================================================================
