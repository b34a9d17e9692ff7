---------------------------- MODULE RoadsideSearch ----------------------------
(***************************************************************************)
(* A caller tells the voice agent piece by piece what is wrong and where,  *)
(* and the agent asks for a match with what it knows.  The request asks    *)
(* for what is missing, or searches: the caller's city, circles of 25, 50  *)
(* and 100 miles, and the caller's state if the city cannot be located.    *)
(* Every stage is a query of its own, so that the directory can change     *)
(* between two of them.  What is selected is ranked and the best offered;  *)
(* a caller to whom nobody can be offered, not even a shop of a chain, is  *)
(* handed to a person.                                                     *)
(***************************************************************************)
EXTENDS RoadsideMechanics, Sequences

CONSTANTS
  Mechanics,    \* the mechanics of the directory
  Profiles,     \* bound: the rows the directory can have
  Vendors,      \* the states a chain has a shop in
  StateAt,      \* the state inferred from each position
  CityAt,       \* where the geocoder places each city
  Answers,      \* bound: what a caller can say
  Shares,       \* bound: the locations a caller can have shared
  MaxSearches,  \* bound: searches of one call
  MaxEdits      \* bound: changes of the directory

ASSUME SearchAssumption ==
  /\ IsFiniteSet(Mechanics)
  /\ Profiles \subseteq Profile
  /\ Vendors \subseteq States
  /\ StateAt \in [Points -> States \cup {Unknown}]
  /\ CityAt \in [Cities -> Points]
  /\ Answers \subseteq Context
  /\ Shares \subseteq [at : Points, city : Cities \cup {Unknown}, state : States \cup {Unknown}]
  /\ MaxSearches \in Nat
  /\ MaxEdits \in Nat

VARIABLES
  directory,  \* the mechanics' rows
  said,       \* what the caller has said so far
  shared,     \* the location kept for the caller's phone number
  context,    \* what the search under way, or the last one, knows of the caller
  pc,         \* the stage of the search
  rung,       \* the radius it tries, an index into RADIUS_SEARCH_MILES
  level,      \* the stage that found somebody
  found,      \* whom it found
  offered,    \* whom the caller is offered
  ranked,     \* history: where the caller was taken to be when they were ranked
  outcome,    \* the answer to the last request: a question, or how the search ended
  searches,   \* how many searches were made
  edits,      \* how often the directory changed
  touched     \* history: the mechanics whose row changed since the search began

caller == <<said, shared>>

search == <<context, rung, level, found, offered, ranked, searches>>

vars == <<directory, caller, search, pc, outcome, edits, touched>>

Levels == {"none", "exact_city", "radius", "same_state"}

Questions == {"location", "state", "problemType", "vehicleType"}

Outcomes == {"none", "matched", "manual", "error"} \cup Questions

Nothing ==
  [at |-> Unknown, city |-> Unknown, state |-> Unknown,
   road |-> FALSE, problem |-> FALSE, vehicle |-> FALSE]

TypeOK ==
  /\ directory \in [Mechanics -> Profiles]
  /\ said \in Context
  /\ shared \in Shares \cup {Unknown}
  /\ context \in Context
  /\ pc \in {"idle", "exact", "locate", "radius", "state", "vendor"}
  /\ rung \in 1 .. Len(RADIUS_SEARCH_MILES)
  /\ level \in Levels
  /\ found \subseteq Mechanics
  /\ offered \subseteq found
  /\ ranked \in Points \cup {Unknown}
  /\ outcome \in Outcomes
  /\ searches \in 0 .. MaxSearches
  /\ edits \in 0 .. MaxEdits
  /\ touched \subseteq Mechanics

Init ==
  /\ directory \in [Mechanics -> Profiles]
  /\ said = Nothing
  /\ shared = Unknown
  /\ context = Nothing
  /\ pc = "idle"
  /\ rung = 1
  /\ level = "none"
  /\ found = {}
  /\ offered = {}
  /\ ranked = Unknown
  /\ outcome = "none"
  /\ searches = 0
  /\ edits = 0
  /\ touched = {}

(***************************************************************************)
(* The caller and the directory.                                           *)
(***************************************************************************)

Either(new, old) == IF new # Unknown THEN new ELSE old

\* What the agent knows after the caller has spoken.
Added(a, c) ==
  [at |-> Either(a.at, c.at), city |-> Either(a.city, c.city),
   state |-> Either(a.state, c.state), road |-> a.road \/ c.road,
   problem |-> a.problem \/ c.problem, vehicle |-> a.vehicle \/ c.vehicle]

Tell ==
  /\ pc = "idle"
  /\ \E a \in Answers : said' = Added(a, said)
  /\ UNCHANGED <<directory, shared, search, pc, outcome, edits, touched>>

\* The caller shares a location on the web site, or it expires.
Share ==
  /\ shared' \in Shares \cup {Unknown}
  /\ UNCHANGED <<directory, said, search, pc, outcome, edits, touched>>

\* An import or a mechanic's position, in a transaction of its own.
EditMechanic(m) ==
  /\ edits < MaxEdits
  /\ \E row \in Profiles : directory' = [directory EXCEPT ![m] = row]
  /\ edits' = edits + 1
  /\ touched' = touched \cup {m}
  /\ UNCHANGED <<caller, search, pc, outcome>>

(***************************************************************************)
(* The request.                                                            *)
(***************************************************************************)

\* What is left of the caller's words without what they have of it in the
\* request's location object.
Kept(c) ==
  {[c EXCEPT !.city = city, !.state = state, !.road = road] :
     city \in {c.city, Unknown}, state \in {c.state, Unknown}, road \in {c.road, FALSE}}

\* _prefer_shared_gps_if_available: unless the position came as the request's own
\* coordinates, the shared one replaces it, and the location object is dropped.
Located(c) ==
  {k \in {c} : shared = Unknown \/ c.at # Unknown} \cup
    (IF shared = Unknown THEN {}
     ELSE {[k EXCEPT !.at = shared.at, !.city = Either(shared.city, @),
                     !.state = Either(shared.state, @)] : k \in Kept(c)})

BuildContext(c) ==
  IF c.state = Unknown /\ c.at # Unknown THEN [c EXCEPT !.state = StateAt[c.at]] ELSE c

\* What missing_fields returns for a caller.
Missing(c) ==
  {q \in Questions :
     \/ q = "location" /\ c.at = Unknown /\ c.city = Unknown /\ ~c.road
     \/ q = "state" /\ c.at = Unknown /\ c.state = Unknown
     \/ q = "problemType" /\ ~c.problem
     \/ /\ q = "vehicleType" /\ ~c.vehicle
        /\ c.at # Unknown \/ c.city # Unknown \/ c.road
        /\ c.state # Unknown /\ c.problem}

NextQuestion(missing) ==
  CASE "location" \in missing -> "location"
    [] "location" \notin missing /\ "state" \in missing -> "state"
    [] missing \cap {"location", "state"} = {} /\ "problemType" \in missing -> "problemType"
    [] OTHER -> "vehicleType"

\* Something is missing: the agent asks for it.
Ask ==
  /\ pc = "idle"
  /\ \E c \in Located(said) :
       LET missing == Missing(BuildContext(c))
       IN  missing # {} /\ outcome' = NextQuestion(missing)
  /\ UNCHANGED <<directory, caller, search, pc, edits, touched>>

\* Mutant: what the last request found is kept.
SearchKeeping ==
  /\ pc = "idle"
  /\ searches < MaxSearches
  /\ context' \in {BuildContext(c) : c \in Located(said)}
  /\ Missing(context') = {}
  /\ pc' = "exact"
  /\ rung' = 1 /\ level' = "none" /\ found' = {} /\ ranked' = Unknown
  /\ outcome' = "none"
  /\ searches' = searches + 1
  /\ touched' = {}
  /\ UNCHANGED <<directory, caller, offered, edits>>

Search ==
  /\ pc = "idle"
  /\ searches < MaxSearches
  /\ context' \in {BuildContext(c) : c \in Located(said)}
  /\ Missing(context') = {}
  /\ pc' = "exact"
  /\ rung' = 1 /\ level' = "none" /\ found' = {} /\ offered' = {} /\ ranked' = Unknown
  /\ outcome' = "none"
  /\ searches' = searches + 1
  /\ touched' = {}
  /\ UNCHANGED <<directory, caller, edits>>

(***************************************************************************)
(* The stages of the search.                                               *)
(***************************************************************************)

\* The stage selects some mechanics, who are ranked; or the search goes on.
Selects(some, name, otherwise) ==
  /\ IF some # {}
     THEN /\ found' = some
          /\ offered' \in Tops(some, directory, context)
          /\ ranked' = context.at
          /\ level' = name
          /\ pc' = "vendor"
          /\ UNCHANGED rung
     ELSE /\ otherwise
          /\ UNCHANGED <<found, offered, ranked, level>>
  /\ UNCHANGED <<directory, caller, searches, outcome, edits, touched>>

InCity == {m \in Mechanics : /\ Callable(directory[m])
                             /\ SameState(directory[m], context)
                             /\ SameCity(directory[m], context)}

FindExactCity ==
  /\ pc = "exact"
  /\ Selects(InCity, "exact_city", pc' = "locate" /\ UNCHANGED rung)
  /\ UNCHANGED context

\* The mechanics the centre of the city is computed from; who has a phone was
\* found before.
Settled == {m \in Mechanics : /\ directory[m].active
                              /\ directory[m].at # Unknown
                              /\ SameState(directory[m], context)
                              /\ SameCity(directory[m], context)}

\* The mean of some positions lies between them.
Amid(p, some) ==
  /\ \E m, n \in some : directory[m].at.north <= p.north /\ p.north <= directory[n].at.north
  /\ \E m, n \in some : directory[m].at.east <= p.east /\ p.east <= directory[n].at.east

\* The geocoder answers, or it does not and the mechanics of the city show
\* where it is.
CityPlaces ==
  {CityAt[context.city]} \cup
    (IF Settled = {} THEN {Unknown} ELSE {p \in Points : Amid(p, Settled)})

\* What getCoordinatesForCityState makes of a caller without a position.
Placed ==
  IF context.at = Unknown /\ context.city # Unknown /\ context.state # Unknown
  THEN {[context EXCEPT !.at = place] : place \in CityPlaces}
  ELSE {context}

Locate ==
  /\ pc = "locate"
  /\ context' \in Placed
  /\ pc' = "radius"
  /\ UNCHANGED <<directory, caller, rung, level, found, offered, ranked, searches, outcome,
                 edits, touched>>

InCircle(miles) ==
  {m \in Mechanics : /\ Callable(directory[m])
                     /\ SameState(directory[m], context)
                     /\ InRadius(directory[m], context, miles)}

\* Nobody in any circle: only a caller without a position gets the whole state.
LastResort == IF context.at = Unknown /\ context.state # Unknown THEN "state" ELSE "vendor"

\* Mutant: the widest circle is left out.
FindRadiusShort ==
  /\ pc = "radius"
  /\ Selects(InCircle(RADIUS_SEARCH_MILES[rung]), "radius",
             IF rung < Len(RADIUS_SEARCH_MILES) - 1
             THEN rung' = rung + 1 /\ pc' = pc
             ELSE rung' = rung /\ pc' = LastResort)
  /\ UNCHANGED context

FindRadius ==
  /\ pc = "radius"
  /\ Selects(InCircle(RADIUS_SEARCH_MILES[rung]), "radius",
             IF rung < Len(RADIUS_SEARCH_MILES)
             THEN rung' = rung + 1 /\ pc' = pc
             ELSE rung' = rung /\ pc' = LastResort)
  /\ UNCHANGED context

InState == {m \in Mechanics : Callable(directory[m]) /\ SameState(directory[m], context)}

FindSameState ==
  /\ pc = "state"
  /\ Selects(InState, "same_state", pc' = "vendor" /\ UNCHANGED rung)
  /\ UNCHANGED context

\* Whether a shop of a chain can be named.  The look-up itself may fail.
VendorNamed == {named \in BOOLEAN : named => context.state \in Vendors}

\* findMajorVendor, which may locate the city after all, and the answer.
FindMajorVendor ==
  /\ pc = "vendor"
  /\ pc' = "idle"
  /\ context' \in Placed \cup {context}
  /\ \E vendor \in VendorNamed :
       outcome' = IF offered # {} \/ vendor THEN "matched" ELSE "manual"
  /\ UNCHANGED <<directory, caller, rung, level, found, offered, ranked, searches, edits, touched>>

\* Any other error is answered with a manual dispatch and nobody offered.
ApiError ==
  /\ pc # "idle"
  /\ pc' = "idle"
  /\ outcome' = "error"
  /\ found' = {} /\ offered' = {} /\ ranked' = Unknown /\ level' = "none"
  /\ UNCHANGED <<directory, caller, context, rung, searches, edits, touched>>

Stage == FindExactCity \/ Locate \/ FindRadius \/ FindSameState \/ FindMajorVendor \/ ApiError

Next ==
  \/ Tell
  \/ Share
  \/ \E m \in Mechanics : EditMechanic(m)
  \/ Ask
  \/ Search
  \/ Stage

Spec == Init /\ [][Next]_vars

(***************************************************************************)
(* Properties.                                                             *)
(***************************************************************************)

Ended == outcome \in {"matched", "manual"}

\* The mechanics that stayed the same during the search, can be called and
\* work in the state the caller is searched in.
Steady ==
  {m \in Mechanics \ touched : Callable(directory[m]) /\ SameState(directory[m], context)}

\* No further north than 37 degrees the window holds the whole circle.
WindowIsWide == MilesPerDegree >= 55

Near(m, miles) ==
  context.at # Unknown /\ directory[m].at # Unknown /\ Within(context.at, directory[m].at, miles)

\* Nobody is offered only when every mechanic that stayed the same is out of
\* reach: in another city and a hundred miles away, or, where the city could
\* not be located, not in the state at all.
NobodyMissed ==
  Ended /\ offered = {} =>
    \A m \in Steady :
      /\ ~SameCity(directory[m], context)
      /\ context.at # Unknown
      /\ WindowIsWide => ~Near(m, 100)

\* A caller is offered the mechanics of the city if there are any, and those of
\* a circle only if nobody is in a smaller one, although the stages do not see
\* the same directory.
NearestFirst ==
  Ended /\ offered # {} =>
    \A m \in Steady :
      /\ SameCity(directory[m], context) => level = "exact_city"
      /\ \A j \in 1 .. Len(RADIUS_SEARCH_MILES) :
           level = "radius" /\ WindowIsWide /\ Near(m, RADIUS_SEARCH_MILES[j]) =>
             RADIUS_SEARCH_MILES[rung] <= RADIUS_SEARCH_MILES[j]

\* Nobody found is left out for a mechanic who is worse in place, distance,
\* service, hours, vehicle, priority or rating and better in none of them: the
\* points added up, capped and taken off never turn the order round.
BestOffered ==
  Ended =>
    \A m \in offered \ touched, n \in (found \ offered) \ touched :
      ~Better(directory[n], directory[m], [context EXCEPT !.at = ranked])
===============================================================================
