-------------------------- MODULE DispatchContract --------------------------
(***************************************************************************)
(* What dispatch promises the mechanics and the driver of one job, with no *)
(* status, payment or location: a mechanic is contacted at most once, an   *)
(* acceptance closes every other open offer, a mechanic whose offer is     *)
(* closed never comes back, and a new wave goes out when the last open     *)
(* offer of an unassigned job is turned down.                              *)
(***************************************************************************)
CONSTANTS
  Mechanics,   \* whoever may be contacted
  NoMechanic   \* nobody holds the job

VARIABLES
  open,       \* the mechanics that can still answer
  contacted,  \* the mechanics that ever got an offer
  holder      \* the mechanic the job is assigned to, or NoMechanic

contractVars == <<open, contacted, holder>>

Fresh == Mechanics \ contacted

ContractInit ==
  /\ open = {}
  /\ contacted = {}
  /\ holder = NoMechanic

\* A wave of offers goes to mechanics nobody contacted before.
Offer(S) ==
  /\ S # {}
  /\ S \subseteq Fresh
  /\ open' = open \cup S
  /\ contacted' = contacted \cup S
  /\ UNCHANGED holder

\* An open offer, or the one that demo mode makes on the spot, is accepted.
Accept(m) ==
  /\ m \in open \cup Fresh
  /\ open' = {}
  /\ contacted' = contacted \cup {m}
  /\ holder' = m

\* An offer is turned down or times out.
Close(m) ==
  /\ m \in open
  /\ open' = open \ {m}
  /\ UNCHANGED <<contacted, holder>>

\* The last open offer of an unassigned job is turned down: the next wave.
CloseAndOffer(m, S) ==
  /\ open = {m}
  /\ holder = NoMechanic
  /\ S # {}
  /\ S \subseteq Fresh
  /\ open' = S
  /\ contacted' = contacted \cup S
  /\ UNCHANGED holder

\* The driver rejects the arrival time of the assigned mechanic.
Release ==
  /\ holder' = NoMechanic
  /\ UNCHANGED <<open, contacted>>

ContractNext ==
  \/ \E S \in SUBSET Mechanics : Offer(S)
  \/ \E m \in Mechanics : Accept(m)
  \/ \E m \in Mechanics : Close(m)
  \/ \E m \in Mechanics, S \in SUBSET Mechanics : CloseAndOffer(m, S)
  \/ Release

ContractSpec == ContractInit /\ [][ContractNext]_contractVars
=============================================================================
