-------------------------- MODULE JobDispatchProps --------------------------
(***************************************************************************)
(* What should hold of a job whatever its handlers are called with, and    *)
(* the mapping of its state to the dispatch contract.                      *)
(***************************************************************************)
EXTENDS JobDispatch

\* An assignment is backed by the mechanic's own acceptance and by a tracking
\* session that has not ended, and no acceptance outlives the assignment:
\* record_mechanic_response, the demo assignment and the release of a
\* mechanic each write the three tables together.
AssignmentBacked ==
  /\ assigned # NoMechanic =>
       offers[assigned] = "accepted" /\ tracking[assigned] \in Live
  /\ assigned = NoMechanic => \A m \in Mechanics : offers[m] # "accepted"

\* While the job says that a mechanic is assigned, nobody else can answer: a
\* wave that goes out after the assignment also takes the status back.
AssignedClosesOffers ==
  status = "mechanic_assigned" => assigned # NoMechanic /\ OpenOffers = {}

\* The driver's decision is about the mechanic that is assigned now: a pending
\* decision has a mechanic, and a rejected one leaves nobody assigned and
\* nobody tracked, also when older waves are answered after the rejection.
EtaFollowsAssignment ==
  /\ eta = "pending" => assigned # NoMechanic
  /\ assigned # NoMechanic => eta \in {"pending", "accepted"}
  /\ eta = "rejected" => \A m \in Mechanics : tracking[m] \notin Live

\* A job that says the mechanic arrived has a mechanic, and it is that
\* mechanic's session that arrived, whichever handlers ran in between.
ArrivalIsTracked ==
  status = "mechanic_arrived" =>
    assigned # NoMechanic /\ tracking[assigned] = "arrived"

\* No mechanic is contacted before the job has a position, or a city and a
\* state, to rank mechanics by, and the job does not lose that afterwards: a
\* report by word of mouth moves the job to matching without any.  Of the
\* payment nothing is said: request_payment asks for it without a location.
OffersNeedLocation ==
  (\E m \in Mechanics : offers[m] # "none") => Located \/ AreaKnown

\* A closed offer is never open again, and an ended session never runs again:
\* whoever declined, or was released, is not contacted a second time.
ClosedStaysClosed ==
  [][\A m \in Mechanics :
       /\ offers[m] \in TurnedDown \cup {"superseded"} => offers'[m] = offers[m]
       /\ tracking[m] = "ended" => tracking'[m] = "ended"]_vars

\* "If a mechanic declines/times out, system moves to next" (README.md): the
\* step that closes the last open offer of an unassigned job either opens
\* another one or leaves no candidate behind.
MovesOnToNext ==
  [][OpenOffers # {} /\ OpenOffers' = {} /\ assigned' = NoMechanic
       => Ranked(place)' = {}]_vars

\* "dispatched: Mechanic is confirmed and dispatch has been communicated"
\* (docs/backend-integration.md): a job the status tool reports as dispatched
\* has a mechanic.
DispatchedIsConfirmed ==
  status \in {"mechanic_en_route", "mechanic_arrived"} => assigned # NoMechanic

-----------------------------------------------------------------------------

Contract ==
  INSTANCE DispatchContract WITH
    open <- OpenOffers,
    contacted <- Mechanics \ Uncontacted,
    holder <- assigned

\* The handlers of the job keep the dispatch contract.
KeepsContract == Contract!ContractSpec
=============================================================================
