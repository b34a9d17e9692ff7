------------------------- MODULE RoadsideSearchProofs -------------------------
(***************************************************************************)
(* What RoadsideSearch guarantees for any number of mechanics and edits,   *)
(* any directory, geocoder and caller.                                     *)
(***************************************************************************)
EXTENDS RoadsideSearch, FiniteSetTheorems, TLAPS

(***************************************************************************)
(* The invariant.                                                          *)
(***************************************************************************)

Through == pc = "vendor" \/ Ended

\* While the search goes on nobody is found; somebody is offered when and only
\* when a stage found somebody.
StageHolds ==
  /\ pc # "idle" => outcome = "none"
  /\ pc \in {"exact", "locate", "radius", "state"} => level = "none" /\ offered = {}
  /\ pc \in {"exact", "locate"} => rung = 1
  /\ Through => (level = "none" <=> offered = {})
  /\ Through /\ level = "radius" => context.at # Unknown

\* Once the city was looked at, nobody who stayed the same is in it.
CityPassed ==
  (pc \in {"locate", "radius", "state"} \/ Through) /\ level # "exact_city" =>
    \A m \in Steady : ~SameCity(directory[m], context)

\* The circles that were looked at, and when the search is through, all.
CirclesPassed ==
  \A m \in Steady : \A j \in 1 .. Len(RADIUS_SEARCH_MILES) :
    WindowIsWide /\ Near(m, RADIUS_SEARCH_MILES[j]) =>
      /\ pc = "radius" => j >= rung
      /\ pc # "state"
      /\ Through => level # "none"
      /\ Through /\ level = "radius" => j >= rung

\* A caller without a position is refused only after the whole state.
StatePassed == Through /\ level = "none" /\ context.at = Unknown => Steady = {}

SearchInv == TypeOK /\ StageHolds /\ CityPassed /\ CirclesPassed /\ StatePassed

(***************************************************************************)
(* Geometry.                                                               *)
(***************************************************************************)
LEMMA Rungs ==
  /\ Len(RADIUS_SEARCH_MILES) = 3
  /\ RADIUS_SEARCH_MILES[1] = 25
  /\ RADIUS_SEARCH_MILES[2] = 50
  /\ RADIUS_SEARCH_MILES[3] = 100
BY DEF RADIUS_SEARCH_MILES

LEMMA SquareBound ==
  ASSUME NEW a \in Int, NEW r \in Nat, a * a <= r * r
  PROVE  Abs(a) <= r
<1>1. CASE a > r
  <2>1. a * a >= (r + 1) * (r + 1)
    BY <1>1
  <2>2. QED
    BY <2>1
<1>2. CASE -a > r
  <2>1. a * a >= (r + 1) * (r + 1)
    BY <1>2
  <2>2. QED
    BY <2>1
<1>3. CASE a <= r /\ -a <= r
  BY <1>3 DEF Abs
<1>4. QED
  BY <1>1, <1>2, <1>3

\* Where a degree of longitude has 55 miles or more, who is within the circle is
\* within the window the query selects by.
LEMMA WindowHoldsCircle ==
  ASSUME NEW p \in Points, NEW q \in Points, NEW r \in {25, 50, 100}, WindowIsWide, Within(p, q, r)
  PROVE  InWindow(p, q, r)
<1> DEFINE n == p.north - q.north
           e == p.east - q.east
<1>1. n \in Int /\ e \in Int
  BY PointsAssumption
<1>2. n * n + e * e <= r * r
  BY DEF Within, Distance2, Square
<1>3. n * n >= 0 /\ e * e >= 0 /\ n * n \in Int /\ e * e \in Int
  <2> HIDE DEF n, e
  <2>1. \A a \in Int : a * a >= 0 /\ a * a \in Int
    OBVIOUS
  <2>2. QED
    BY <1>1, <2>1
<1>4. n * n <= r * r /\ e * e <= r * r
  BY <1>2, <1>3
<1>5. Abs(n) <= r /\ Abs(e) <= r
  <2> HIDE DEF n, e
  <2>1. QED
    BY <1>1, <1>4, SquareBound
<1>6. Abs(e) \in Nat
  <2> HIDE DEF n, e
  <2>1. QED
    BY <1>1 DEF Abs
<1>7. 55 * Abs(e) <= r * MilesPerDegree
  <2> HIDE DEF n, e
  <2>1. MilesPerDegree \in Nat /\ MilesPerDegree >= 55
    BY PointsAssumption DEF WindowIsWide
  <2>2. QED
    BY <1>5, <1>6, <2>1
<1>8. QED
  BY <1>5, <1>7 DEF InWindow

\* A mechanic who stayed the same and is within a circle is selected by it.
LEMMA CircleSelects ==
  ASSUME TypeOK, NEW m \in Steady, NEW r \in {25, 50, 100}, WindowIsWide, Near(m, r)
  PROVE  m \in InCircle(r)
<1>1. m \in Mechanics /\ Callable(directory[m]) /\ SameState(directory[m], context)
  BY DEF Steady
<1>2. context.at \in Points
  BY DEF TypeOK, Near, Context
<1>3. directory[m] \in Profile
  BY <1>1, SearchAssumption DEF TypeOK
<1>4. directory[m].at \in Points
  BY <1>3 DEF Profile, Near
<1>5. InRadius(directory[m], context, r)
  BY <1>2, <1>4, WindowHoldsCircle DEF Near, InRadius
<1>6. QED
  BY <1>1, <1>5 DEF InCircle

(***************************************************************************)
(* Ranking offers somebody.                                                *)
(***************************************************************************)
LEMMA TopsSomebody ==
  ASSUME NEW STATE some, some \in SUBSET Mechanics, some # {},
         NEW ACTION top, top \in Tops(some, directory, context)
  PROVE  top # {} /\ top \subseteq some
<1>1. IsFiniteSet(some)
  BY SearchAssumption, FS_Subset
<1>2. Cardinality(some) \in Nat /\ Cardinality(some) # 0
  BY <1>1, FS_CardinalityType, FS_EmptySet
<1>3. OptionLimit \in Nat /\ OptionLimit # 0
  BY LimitAssumption DEF OptionLimit, Least
<1>4. Cardinality(top) # 0
  BY <1>2, <1>3 DEF Tops, Least
<1>5. Cardinality({}) = 0
  BY FS_EmptySet
<1>6. QED
  BY <1>4, <1>5 DEF Tops

(***************************************************************************)
(* Types.                                                                  *)
(***************************************************************************)
LEMMA ContextTypes ==
  ASSUME TypeOK
  PROVE  /\ \A a \in Answers : Added(a, said) \in Context
         /\ \A c \in Located(said) : BuildContext(c) \in Context
<1>1. said \in Context /\ Answers \subseteq Context
  BY SearchAssumption DEF TypeOK
<1>2. \A a \in Answers : Added(a, said) \in Context
  BY <1>1 DEF Added, Either, Context
<1>3. Located(said) \subseteq Context
  <2>1. Kept(said) \subseteq Context
    <3>1. ASSUME NEW city \in {said.city, Unknown}, NEW state \in {said.state, Unknown},
                 NEW road \in {said.road, FALSE}
          PROVE  [said EXCEPT !.city = city, !.state = state, !.road = road] \in Context
      BY <1>1 DEF Context
    <3>2. ASSUME NEW k \in Kept(said)
          PROVE  k \in Context
      <4>1. PICK city \in {said.city, Unknown}, state \in {said.state, Unknown},
                 road \in {said.road, FALSE} :
              k = [said EXCEPT !.city = city, !.state = state, !.road = road]
        BY DEF Kept
      <4>2. QED
        BY <3>1, <4>1, Zenon
    <3>3. QED
      BY <3>2
  <2>2. CASE shared = Unknown
    BY <1>1, <2>2 DEF Located
  <2>3. CASE shared # Unknown
    <3>1. shared \in [at : Points, city : Cities \cup {Unknown}, state : States \cup {Unknown}]
      BY <2>3, SearchAssumption DEF TypeOK
    <3>2. ASSUME NEW k \in Kept(said)
          PROVE  [k EXCEPT !.at = shared.at, !.city = Either(shared.city, @),
                           !.state = Either(shared.state, @)] \in Context
      BY <2>1, <3>1 DEF Context, Either
    <3>3. QED
      BY <1>1, <2>3, <3>2 DEF Located
  <2>4. QED
    BY <2>2, <2>3
<1>4. ASSUME NEW c \in Context
      PROVE  BuildContext(c) \in Context
  <2>1. CASE c.state = Unknown /\ c.at # Unknown
    <3>1. StateAt[c.at] \in States \cup {Unknown}
      BY <2>1, SearchAssumption DEF Context
    <3>2. QED
      BY <2>1, <3>1 DEF BuildContext, Context
  <2>2. CASE ~(c.state = Unknown /\ c.at # Unknown)
    BY <2>2 DEF BuildContext
  <2>3. QED
    BY <2>1, <2>2
<1>5. QED
  BY <1>2, <1>3, <1>4

LEMMA SelectsTypes ==
  ASSUME TypeOK, NEW STATE some, some \in SUBSET Mechanics, NEW name \in Levels, NEW ACTION otherwise,
         Selects(some, name, otherwise), context' = context,
         some = {} => rung' \in 1 .. Len(RADIUS_SEARCH_MILES)
                       /\ pc' \in {"idle", "exact", "locate", "radius", "state", "vendor"}
  PROVE  TypeOK'
<1>1. CASE some # {}
  <2>1. /\ found' = some /\ offered' \in Tops(some, directory, context)
        /\ level' = name /\ pc' = "vendor" /\ rung' = rung
        /\ ranked' \in Points \cup {Unknown}
    BY <1>1 DEF Selects, TypeOK, Context
  <2>2. offered' \subseteq found'
    BY <1>1, <2>1, TopsSomebody
  <2>3. QED
    BY <2>1, <2>2 DEF Selects, TypeOK, caller
<1>2. CASE some = {}
  BY <1>2 DEF Selects, TypeOK, caller
<1>3. QED
  BY <1>1, <1>2

LEMMA InitTypes == Init => TypeOK
<1>1. Nothing \in Context
  BY DEF Nothing, Context
<1>2. 1 \in 1 .. Len(RADIUS_SEARCH_MILES)
  BY Rungs
<1>3. QED
  BY <1>1, <1>2, SearchAssumption DEF Init, TypeOK, Levels, Outcomes

LEMMA CallerTypes ==
  ASSUME TypeOK, Tell \/ Share \/ (\E m \in Mechanics : EditMechanic(m)) \/ Ask \/ Search
  PROVE  TypeOK'
<1>1. CASE Tell
  BY <1>1, ContextTypes DEF Tell, TypeOK, search
<1>2. CASE Share
  BY <1>2 DEF Share, TypeOK, search
<1>3. CASE \E m \in Mechanics : EditMechanic(m)
  BY <1>3, SearchAssumption DEF EditMechanic, TypeOK, caller, search
<1>4. CASE Ask
  <2>1. outcome' \in Outcomes
    BY <1>4 DEF Ask, NextQuestion, Outcomes, Questions
  <2>2. QED
    BY <1>4, <2>1 DEF Ask, TypeOK, caller, search
<1>5. CASE Search
  <2>1. context' \in Context
    BY <1>5, ContextTypes DEF Search
  <2>2. 1 \in 1 .. Len(RADIUS_SEARCH_MILES) /\ searches' \in 0 .. MaxSearches
    BY <1>5, Rungs, SearchAssumption DEF Search, TypeOK
  <2>3. QED
    BY <1>5, <2>1, <2>2 DEF Search, TypeOK, caller, Levels, Outcomes
<1>6. QED
  BY <1>1, <1>2, <1>3, <1>4, <1>5

\* Locating a city keeps everything but the position.
LEMMA PlacedTypes ==
  ASSUME TypeOK, NEW c \in Placed
  PROVE  /\ c \in Context
         /\ c.city = context.city /\ c.state = context.state
         /\ context.at # Unknown => c = context
<1>1. context \in Context
  BY DEF TypeOK
<1>2. CASE context.at = Unknown /\ context.city # Unknown /\ context.state # Unknown
  <2>1. PICK place \in CityPlaces : c = [context EXCEPT !.at = place]
    BY <1>2 DEF Placed
  <2>2. place \in Points \cup {Unknown}
    BY <1>1, <1>2, SearchAssumption DEF CityPlaces, Context
  <2>3. QED
    BY <1>1, <1>2, <2>1, <2>2 DEF Context
<1>3. CASE ~(context.at = Unknown /\ context.city # Unknown /\ context.state # Unknown)
  BY <1>1, <1>3 DEF Placed
<1>4. QED
  BY <1>2, <1>3

LEMMA StageTypes ==
  ASSUME TypeOK, Stage
  PROVE  TypeOK'
<1>1. CASE FindExactCity
  <2>1. InCity \in SUBSET Mechanics /\ "exact_city" \in Levels
    BY DEF InCity, Levels
  <2>2. context' = context /\ Selects(InCity, "exact_city", pc' = "locate" /\ UNCHANGED rung)
    BY <1>1 DEF FindExactCity
  <2>3. InCity = {} => rung' \in 1 .. Len(RADIUS_SEARCH_MILES) /\ pc' = "locate"
    BY <2>2 DEF Selects, TypeOK
  <2>4. QED
    BY <2>1, <2>2, <2>3, SelectsTypes
<1>2. CASE Locate
  <2>1. context' \in Context
    BY <1>2, PlacedTypes DEF Locate
  <2>2. QED
    BY <1>2, <2>1 DEF Locate, TypeOK, caller
<1>3. CASE FindRadius
  <2>1. InCircle(RADIUS_SEARCH_MILES[rung]) \in SUBSET Mechanics /\ "radius" \in Levels
    BY DEF InCircle, Levels
  <2>2. /\ context' = context
        /\ Selects(InCircle(RADIUS_SEARCH_MILES[rung]), "radius",
                   IF rung < Len(RADIUS_SEARCH_MILES)
                   THEN rung' = rung + 1 /\ pc' = pc
                   ELSE rung' = rung /\ pc' = LastResort)
    BY <1>3 DEF FindRadius
  <2>3. InCircle(RADIUS_SEARCH_MILES[rung]) = {} =>
          /\ rung' \in 1 .. Len(RADIUS_SEARCH_MILES)
          /\ pc' \in {"idle", "exact", "locate", "radius", "state", "vendor"}
    BY <2>2, Rungs DEF Selects, TypeOK, LastResort
  <2>4. QED
    BY <2>1, <2>2, <2>3, SelectsTypes
<1>4. CASE FindSameState
  <2>1. InState \in SUBSET Mechanics /\ "same_state" \in Levels
    BY DEF InState, Levels
  <2>2. context' = context /\ Selects(InState, "same_state", pc' = "vendor" /\ UNCHANGED rung)
    BY <1>4 DEF FindSameState
  <2>3. InState = {} => rung' \in 1 .. Len(RADIUS_SEARCH_MILES) /\ pc' = "vendor"
    BY <2>2 DEF Selects, TypeOK
  <2>4. QED
    BY <2>1, <2>2, <2>3, SelectsTypes
<1>5. CASE FindMajorVendor
  <2>1. context' \in Context
    BY <1>5, PlacedTypes DEF FindMajorVendor, TypeOK
  <2>2. QED
    BY <1>5, <2>1 DEF FindMajorVendor, TypeOK, caller, Outcomes
<1>6. CASE ApiError
  BY <1>6 DEF ApiError, TypeOK, caller, Levels, Outcomes
<1>7. QED
  BY <1>1, <1>2, <1>3, <1>4, <1>5, <1>6 DEF Stage

\* Type correctness; whom the caller is offered is always among those the same
\* search found.
THEOREM TypeCorrect == Spec => []TypeOK
<1>1. TypeOK /\ [Next]_vars => TypeOK'
  <2>1. TypeOK /\ UNCHANGED vars => TypeOK'
    BY DEF TypeOK, vars, caller, search
  <2>2. QED
    BY <2>1, CallerTypes, StageTypes DEF Next
<1>2. QED
  BY <1>1, InitTypes, PTL DEF Spec

(***************************************************************************)
(* The steps of the invariant.                                             *)
(***************************************************************************)
LEMMA SteadySame ==
  ASSUME UNCHANGED <<directory, touched, context>>
  PROVE  /\ Steady' = Steady
         /\ \A m : SameCity(directory[m], context)' = SameCity(directory[m], context)
         /\ \A m, r : Near(m, r)' = Near(m, r)
BY DEF Steady, SameCity, SameState, Callable, Near, Within, Distance2

\* Between the searches, and when the search itself does not move.
LEMMA CallerStep ==
  ASSUME SearchInv, Tell \/ Share \/ Ask \/ UNCHANGED vars
  PROVE  (StageHolds /\ CityPassed /\ CirclesPassed /\ StatePassed)'
<1>1. UNCHANGED <<directory, touched, context, pc, rung, level, offered>>
  BY DEF Tell, Share, Ask, search, vars
<1>2. /\ Ended' => Ended
      /\ pc # "idle" => outcome' = outcome
  <2>1. CASE Ask
    BY <2>1 DEF Ask, NextQuestion, Ended
  <2>2. CASE Tell \/ Share \/ UNCHANGED vars
    BY <2>2 DEF Tell, Share, vars, Ended
  <2>3. QED
    BY <2>1, <2>2
<1>3. StageHolds'
  BY <1>1, <1>2 DEF SearchInv, StageHolds, Through
<1>4. CityPassed'
  BY <1>1, <1>2, SteadySame DEF SearchInv, CityPassed, Through
<1>5. CirclesPassed'
  BY <1>1, <1>2, SteadySame DEF SearchInv, CirclesPassed, Through, WindowIsWide
<1>6. StatePassed'
  BY <1>1, <1>2, SteadySame DEF SearchInv, StatePassed, Through
<1>7. QED
  BY <1>3, <1>4, <1>5, <1>6

\* A mechanic whose row changes is none of the steady ones any more.
LEMMA EditStep ==
  ASSUME SearchInv, NEW k \in Mechanics, EditMechanic(k)
  PROVE  (StageHolds /\ CityPassed /\ CirclesPassed /\ StatePassed)'
<1>1. UNCHANGED <<context, pc, rung, level, offered, outcome>> /\ touched' = touched \cup {k}
  BY DEF EditMechanic, search
<1>2. \A m \in Mechanics \ {k} : directory'[m] = directory[m]
  BY DEF EditMechanic, SearchInv, TypeOK
<1>3. ASSUME NEW m \in Steady'
      PROVE  /\ m \in Steady
             /\ SameCity(directory[m], context)' = SameCity(directory[m], context)
             /\ \A r : Near(m, r)' = Near(m, r)
  <2>1. m \in Mechanics /\ m # k /\ m \notin touched
    BY <1>1, <1>3 DEF Steady
  <2>2. directory'[m] = directory[m] /\ context' = context
    BY <1>1, <1>2, <2>1
  <2>3. QED
    BY <1>3, <2>1, <2>2 DEF Steady, SameCity, SameState, Callable, Near, Within, Distance2
<1>4. StageHolds' /\ (Through' <=> Through)
  BY <1>1 DEF SearchInv, StageHolds, Through, Ended
<1>5. CityPassed'
  BY <1>1, <1>3, <1>4 DEF SearchInv, CityPassed
<1>6. CirclesPassed'
  BY <1>1, <1>3, <1>4 DEF SearchInv, CirclesPassed, WindowIsWide
<1>7. StatePassed'
  BY <1>1, <1>3, <1>4 DEF SearchInv, StatePassed
<1>8. QED
  BY <1>4, <1>5, <1>6, <1>7

LEMMA SearchStep ==
  ASSUME Search
  PROVE  (StageHolds /\ CityPassed /\ CirclesPassed /\ StatePassed)'
BY DEF Search, StageHolds, CityPassed, CirclesPassed, StatePassed, Through, Ended

\* A stage that found somebody ends the search.
LEMMA FoundStep ==
  ASSUME SearchInv, pc \in {"exact", "radius", "state"}, context' = context,
         NEW STATE some, some \in SUBSET Mechanics, some # {}, NEW name \in {"exact_city", "radius", "same_state"},
         NEW ACTION otherwise, Selects(some, name, otherwise),
         pc = "exact" <=> name = "exact_city", pc = "radius" <=> name = "radius",
         name = "radius" => context.at # Unknown
  PROVE  (StageHolds /\ CityPassed /\ CirclesPassed /\ StatePassed)'
<1>1. /\ UNCHANGED <<directory, touched, context, rung, outcome>>
      /\ offered' \in Tops(some, directory, context)
      /\ level' = name /\ pc' = "vendor"
  BY DEF Selects
<1>2. offered' # {} /\ outcome = "none"
  BY <1>1, TopsSomebody DEF SearchInv, StageHolds
<1>3. StageHolds' /\ StatePassed'
  BY <1>1, <1>2 DEF StageHolds, StatePassed, Through
<1>4. CityPassed'
  BY <1>1, SteadySame DEF SearchInv, StageHolds, CityPassed
<1>5. CirclesPassed'
  BY <1>1, SteadySame DEF SearchInv, CirclesPassed, WindowIsWide
<1>6. QED
  BY <1>3, <1>4, <1>5

LEMMA ExactStep ==
  ASSUME SearchInv, FindExactCity
  PROVE  (StageHolds /\ CityPassed /\ CirclesPassed /\ StatePassed)'
<1>1. /\ pc = "exact" /\ context' = context
      /\ Selects(InCity, "exact_city", pc' = "locate" /\ UNCHANGED rung)
      /\ InCity \in SUBSET Mechanics
  BY DEF FindExactCity, InCity
<1>2. CASE InCity # {}
  BY <1>1, <1>2, FoundStep
<1>3. CASE InCity = {}
  <2>1. /\ UNCHANGED <<directory, touched, context, rung, outcome, level, offered>>
        /\ pc' = "locate"
    BY <1>1, <1>3 DEF Selects
  <2>2. outcome = "none" /\ level = "none" /\ offered = {} /\ rung = 1
    BY <1>1 DEF SearchInv, StageHolds
  <2>3. \A m \in Steady : ~SameCity(directory[m], context)
    BY <1>3 DEF Steady, InCity
  <2>4. StageHolds' /\ CirclesPassed' /\ StatePassed'
    BY <2>1, <2>2 DEF StageHolds, CirclesPassed, StatePassed, Through, Ended
  <2>5. CityPassed'
    BY <2>1, <2>3, SteadySame DEF CityPassed
  <2>6. QED
    BY <2>4, <2>5
<1>4. QED
  BY <1>2, <1>3

LEMMA LocateStep ==
  ASSUME SearchInv, Locate
  PROVE  (StageHolds /\ CityPassed /\ CirclesPassed /\ StatePassed)'
<1>1. /\ UNCHANGED <<directory, touched, rung, outcome, level, offered>>
      /\ pc = "locate" /\ pc' = "radius"
  BY DEF Locate
<1>2. outcome = "none" /\ level = "none" /\ offered = {} /\ rung = 1
  BY <1>1 DEF SearchInv, StageHolds
<1>3. context'.city = context.city /\ context'.state = context.state
  BY PlacedTypes DEF Locate, SearchInv
<1>4. /\ Steady' = Steady
      /\ \A m : SameCity(directory[m], context)' = SameCity(directory[m], context)
  BY <1>1, <1>3 DEF Steady, SameCity, SameState, Callable
<1>5. StageHolds' /\ CirclesPassed' /\ StatePassed'
  BY <1>1, <1>2, Rungs DEF StageHolds, CirclesPassed, StatePassed, Through, Ended
<1>6. CityPassed'
  BY <1>1, <1>2, <1>4 DEF SearchInv, CityPassed
<1>7. QED
  BY <1>5, <1>6

\* A circle in which nobody is found has no steady mechanic in it.
LEMMA RadiusStep ==
  ASSUME SearchInv, FindRadius
  PROVE  (StageHolds /\ CityPassed /\ CirclesPassed /\ StatePassed)'
<1> DEFINE some == InCircle(RADIUS_SEARCH_MILES[rung])
<1>1. /\ pc = "radius" /\ context' = context
      /\ Selects(some, "radius",
                 IF rung < Len(RADIUS_SEARCH_MILES)
                 THEN rung' = rung + 1 /\ pc' = pc
                 ELSE rung' = rung /\ pc' = LastResort)
      /\ some \in SUBSET Mechanics
  BY DEF FindRadius, InCircle
<1>2. CASE some # {}
  <2>1. context.at # Unknown
    BY <1>2 DEF InCircle, InRadius
  <2> HIDE DEF some
  <2>2. QED
    BY <1>1, <1>2, <2>1, FoundStep
<1>3. CASE some = {}
  <2>1. /\ UNCHANGED <<directory, touched, context, outcome, level, offered>>
        /\ IF rung < 3 THEN rung' = rung + 1 /\ pc' = "radius" ELSE rung' = rung /\ pc' = LastResort
    BY <1>1, <1>3, Rungs DEF Selects
  <2>2. outcome = "none" /\ level = "none" /\ offered = {} /\ rung \in 1 .. 3
    BY <1>1, Rungs DEF SearchInv, StageHolds, TypeOK
  <2>3. ASSUME NEW m \in Steady, NEW j \in 1 .. 3, WindowIsWide, Near(m, RADIUS_SEARCH_MILES[j])
        PROVE  j > rung
    <3>1. j >= rung
      BY <1>1, <2>3, Rungs DEF SearchInv, CirclesPassed
    <3>2. RADIUS_SEARCH_MILES[j] \in {25, 50, 100}
      BY Rungs
    <3>3. m \in InCircle(RADIUS_SEARCH_MILES[j])
      BY <2>3, <3>2, CircleSelects DEF SearchInv
    <3>4. j # rung
      BY <1>3, <3>3
    <3>5. QED
      BY <2>2, <3>1, <3>4
  <2>4. pc' \in {"radius", "state", "vendor"}
    BY <2>1 DEF LastResort
  <2>5. StageHolds'
    BY <2>1, <2>2, <2>4 DEF StageHolds, Through, Ended
  <2>6. CityPassed'
    BY <1>1, <2>1, <2>2, SteadySame DEF SearchInv, CityPassed
  <2>7. CirclesPassed'
    <3>1. SUFFICES ASSUME NEW m \in Steady', NEW j \in 1 .. 3,
                          WindowIsWide, Near(m, RADIUS_SEARCH_MILES[j])'
                   PROVE  pc' = "radius" /\ j >= rung'
      BY <2>1, <2>2, Rungs DEF CirclesPassed, Through, Ended, WindowIsWide
    <3>2. m \in Steady /\ Near(m, RADIUS_SEARCH_MILES[j])
      BY <2>1, <3>1, SteadySame
    <3>3. j > rung
      BY <2>3, <3>1, <3>2
    <3>4. QED
      BY <2>1, <2>2, <3>3
  <2>8. StatePassed'
    <3>1. SUFFICES ASSUME pc' = "vendor", context.at = Unknown
                   PROVE  Steady' = {}
      BY <2>1, <2>2 DEF StatePassed, Through, Ended
    <3>2. context.state = Unknown
      BY <2>1, <3>1 DEF LastResort
    <3>3. QED
      BY <2>1, <3>2, SteadySame DEF Steady, SameState
  <2>9. QED
    BY <2>5, <2>6, <2>7, <2>8
<1>4. QED
  BY <1>2, <1>3

LEMMA StateStep ==
  ASSUME SearchInv, FindSameState
  PROVE  (StageHolds /\ CityPassed /\ CirclesPassed /\ StatePassed)'
<1>1. /\ pc = "state" /\ context' = context
      /\ Selects(InState, "same_state", pc' = "vendor" /\ UNCHANGED rung)
      /\ InState \in SUBSET Mechanics
  BY DEF FindSameState, InState
<1>2. CASE InState # {}
  BY <1>1, <1>2, FoundStep
<1>3. CASE InState = {}
  <2>1. /\ UNCHANGED <<directory, touched, context, rung, outcome, level, offered>>
        /\ pc' = "vendor"
    BY <1>1, <1>3 DEF Selects
  <2>2. outcome = "none" /\ level = "none" /\ offered = {}
    BY <1>1 DEF SearchInv, StageHolds
  <2>3. Steady = {}
    BY <1>3 DEF Steady, InState
  <2>4. Steady' = {}
    BY <2>1, <2>3, SteadySame
  <2>5. QED
    BY <2>1, <2>2, <2>4 DEF StageHolds, CityPassed, CirclesPassed, StatePassed
<1>4. QED
  BY <1>2, <1>3

LEMMA AnswerStep ==
  ASSUME SearchInv, FindMajorVendor \/ ApiError
  PROVE  (StageHolds /\ CityPassed /\ CirclesPassed /\ StatePassed)'
<1>1. CASE FindMajorVendor
  <2>1. /\ UNCHANGED <<directory, touched, rung, level, offered>>
        /\ pc = "vendor" /\ pc' = "idle"
    BY <1>1 DEF FindMajorVendor
  <2>2. Through
    BY <2>1 DEF Through
  <2>3. /\ context'.city = context.city /\ context'.state = context.state
        /\ context.at # Unknown => context' = context
    BY <1>1, PlacedTypes DEF FindMajorVendor, SearchInv
  <2>4. /\ Steady' = Steady
        /\ \A m : SameCity(directory[m], context)' = SameCity(directory[m], context)
    BY <2>1, <2>3 DEF Steady, SameCity, SameState, Callable
  <2>5. StageHolds'
    BY <2>1, <2>2, <2>3 DEF SearchInv, StageHolds
  <2>6. CityPassed'
    BY <2>1, <2>2, <2>4 DEF SearchInv, CityPassed
  <2>7. CirclesPassed'
    <3>1. CASE context.at = Unknown
      <4>1. level # "radius" /\ (level = "none" => Steady = {})
        BY <2>2, <3>1 DEF SearchInv, StageHolds, StatePassed
      <4>2. QED
        BY <2>1, <2>4, <4>1 DEF CirclesPassed
    <3>2. CASE context.at # Unknown
      BY <2>1, <2>2, <2>3, <3>2, SteadySame DEF SearchInv, CirclesPassed, WindowIsWide
    <3>3. QED
      BY <3>1, <3>2
  <2>8. StatePassed'
    BY <2>1, <2>2, <2>3, <2>4 DEF SearchInv, StatePassed
  <2>9. QED
    BY <2>5, <2>6, <2>7, <2>8
<1>2. CASE ApiError
  BY <1>2 DEF ApiError, StageHolds, CityPassed, CirclesPassed, StatePassed, Through, Ended
<1>3. QED
  BY <1>1, <1>2

LEMMA InitInv == Init => SearchInv
<1> SUFFICES ASSUME Init PROVE SearchInv
  OBVIOUS
<1>1. TypeOK
  BY InitTypes
<1>2. StageHolds /\ CityPassed /\ CirclesPassed /\ StatePassed
  BY DEF Init, StageHolds, CityPassed, CirclesPassed, StatePassed, Through, Ended
<1>3. QED
  BY <1>1, <1>2 DEF SearchInv

LEMMA StepInv == SearchInv /\ [Next]_vars => SearchInv'
<1> SUFFICES ASSUME SearchInv, [Next]_vars PROVE SearchInv'
  OBVIOUS
<1>1. TypeOK'
  <2>1. UNCHANGED vars => TypeOK'
    BY DEF SearchInv, TypeOK, vars, caller, search
  <2>2. QED
    BY <2>1, CallerTypes, StageTypes DEF Next, SearchInv
<1>2. (StageHolds /\ CityPassed /\ CirclesPassed /\ StatePassed)'
  BY CallerStep, EditStep, SearchStep, ExactStep, LocateStep, RadiusStep, StateStep, AnswerStep
     DEF Next, Stage
<1>3. QED
  BY <1>1, <1>2 DEF SearchInv

LEMMA Invariance == Spec => []SearchInv
BY InitInv, StepInv, PTL DEF Spec

(***************************************************************************)
(* The ranking.                                                            *)
(***************************************************************************)

LEMMA HundredCount == IsFiniteSet(1 .. 100) /\ Cardinality(1 .. 100) = 100
<1> DEFINE a == 1
           b == 100
<1>1. a \in Int /\ b \in Int /\ ~(a > b) /\ b - a + 1 = 100
  OBVIOUS
<1>2. IsFiniteSet(a .. b) /\ Cardinality(a .. b) = 100
  <2> HIDE DEF a, b
  <2>1. QED
    BY <1>1, FS_Interval
<1>3. QED
  BY <1>2, Zenon

\* Who is nearer has no more miles, and nobody has more than a hundred.
LEMMA MilesCount ==
  ASSUME NEW p \in Points, NEW q \in Points
  PROVE  Miles(p, q) \in 0 .. 100
<1> DEFINE far == {d \in 1 .. 100 : Square(d) <= Distance2(p, q)}
<1>1. IsFiniteSet(1 .. 100) /\ Cardinality(1 .. 100) = 100
  BY HundredCount
<1>2. far \subseteq 1 .. 100
  OBVIOUS
<1>3. Cardinality(far) \in Nat /\ Cardinality(far) <= 100
  <2> HIDE DEF far
  <2>1. IsFiniteSet(far) /\ Cardinality(far) <= Cardinality(1 .. 100)
    BY <1>1, <1>2, FS_Subset
  <2>2. QED
    BY <1>1, <2>1, FS_CardinalityType
<1>4. QED
  BY <1>3 DEF Miles

LEMMA Distances ==
  ASSUME NEW p \in Points, NEW q \in Points
  PROVE  Distance2(p, q) \in Nat
<1>1. p.north - q.north \in Int /\ p.east - q.east \in Int
  BY PointsAssumption
<1>2. \A a \in Int : a * a \in Nat
  OBVIOUS
<1>3. QED
  BY <1>1, <1>2 DEF Distance2, Square

LEMMA MilesOrder ==
  ASSUME NEW p \in Points, NEW q \in Points, NEW r \in Points,
         Distance2(p, q) <= Distance2(p, r)
  PROVE  Miles(p, q) <= Miles(p, r)
<1> DEFINE near == {d \in 1 .. 100 : Square(d) <= Distance2(p, q)}
           far == {d \in 1 .. 100 : Square(d) <= Distance2(p, r)}
<1>1. near \subseteq far
  <2>1. ASSUME NEW d \in 1 .. 100, Square(d) <= Distance2(p, q)
        PROVE  Square(d) <= Distance2(p, r)
    <3>1. Square(d) \in Int /\ Distance2(p, q) \in Int /\ Distance2(p, r) \in Int
      BY Distances DEF Square
    <3>2. QED
      BY <2>1, <3>1
  <2>2. QED
    BY <2>1
<1>2. far \subseteq 1 .. 100
  OBVIOUS
<1>3. IsFiniteSet(far)
  <2> HIDE DEF far
  <2>1. QED
    BY <1>2, HundredCount, FS_Subset
<1>4. Cardinality(near) <= Cardinality(far)
  <2> HIDE DEF near, far
  <2>1. QED
    BY <1>1, <1>3, FS_Subset
<1>5. QED
  BY <1>4 DEF Miles

LEMMA DistanceOrder ==
  ASSUME NEW m \in Profile, NEW n \in Profile, NEW c \in Context, AsNear(m, n, c)
  PROVE  /\ DistancePoints(m, c) \in Int /\ DistancePoints(n, c) \in Int
         /\ DistancePoints(m, c) >= DistancePoints(n, c)
<1>1. ASSUME NEW k \in Profile
      PROVE  DistancePoints(k, c) \in Nat
  <2>1. CASE c.at = Unknown \/ k.at = Unknown
    BY <2>1 DEF DistancePoints
  <2>2. CASE c.at # Unknown /\ k.at # Unknown
    <3>1. Miles(c.at, k.at) \in 0 .. 100
      BY <2>2, MilesCount DEF Context, Profile
    <3>2. QED
      BY <2>2, <3>1 DEF DistancePoints
  <2>3. QED
    BY <2>1, <2>2
<1>2. CASE c.at = Unknown \/ n.at = Unknown
  <2>1. DistancePoints(n, c) = 0
    BY <1>2 DEF DistancePoints
  <2>2. QED
    BY <1>1, <2>1
<1>3. CASE c.at # Unknown /\ n.at # Unknown
  <2>1. /\ m.at # Unknown
        /\ Distance2(c.at, m.at) <= Distance2(c.at, n.at)
        /\ Within(c.at, n.at, n.radius) => Within(c.at, m.at, m.radius)
    BY <1>3 DEF AsNear, AsGood
  <2>2. c.at \in Points /\ m.at \in Points /\ n.at \in Points
    BY <1>3, <2>1 DEF Context, Profile
  <2>3. /\ Miles(c.at, m.at) <= Miles(c.at, n.at)
        /\ Miles(c.at, m.at) \in 0 .. 100 /\ Miles(c.at, n.at) \in 0 .. 100
    BY <2>1, <2>2, MilesOrder, MilesCount
  <2>4. QED
    BY <1>3, <2>1, <2>3 DEF DistancePoints
<1>4. QED
  BY <1>2, <1>3

LEMMA ScoreTypes ==
  ASSUME NEW m \in Profile, NEW c \in Context
  PROVE  Score(m, c) \in Int
<1>1. DistancePoints(m, c) \in Int
  <2>1. AsNear(m, m, c)
    <3>1. c.at # Unknown /\ m.at # Unknown => Distance2(c.at, m.at) \in Nat
      BY Distances DEF Context, Profile
    <3>2. QED
      BY <3>1 DEF AsNear, AsGood
  <2>2. QED
    BY <2>1, DistanceOrder
<1>2. PlacePoints(m, c) \in Int /\ VehiclePoints(m, c) \in Int
  BY DEF PlacePoints, VehiclePoints
<1>3. Least(m.priority, 100) \in Int /\ Least(m.rating, 500) \in Int
  BY DEF Least, Profile
<1>4. QED
  BY <1>1, <1>2, <1>3 DEF Score

\* Who is nearer has more points for the distance.
LEMMA NearerScores ==
  ASSUME NEW m \in Profile, NEW n \in Profile, NEW c \in Context, AsNear(m, n, c),
         Nearer(m, n, c)
  PROVE  DistancePoints(m, c) > DistancePoints(n, c)
<1>1. ASSUME c.at # Unknown, n.at # Unknown
      PROVE  /\ m.at # Unknown
             /\ Within(c.at, n.at, n.radius) => Within(c.at, m.at, m.radius)
             /\ Miles(c.at, m.at) <= Miles(c.at, n.at)
             /\ Miles(c.at, m.at) \in 0 .. 100 /\ Miles(c.at, n.at) \in 0 .. 100
  <2>1. /\ m.at # Unknown
        /\ Distance2(c.at, m.at) <= Distance2(c.at, n.at)
        /\ Within(c.at, n.at, n.radius) => Within(c.at, m.at, m.radius)
    BY <1>1 DEF AsNear, AsGood
  <2>2. c.at \in Points /\ m.at \in Points /\ n.at \in Points
    BY <1>1, <2>1 DEF Context, Profile
  <2>3. QED
    BY <2>1, <2>2, MilesOrder, MilesCount
<1>2. ASSUME c.at # Unknown, m.at # Unknown
      PROVE  Miles(c.at, m.at) \in 0 .. 100
  BY <1>2, MilesCount DEF Context, Profile
<1>3. CASE InReach(m, c) /\ ~InReach(n, c)
  BY <1>1, <1>2, <1>3 DEF InReach, DistancePoints
<1>4. CASE Unknown \notin {c.at, m.at, n.at} /\ Miles(c.at, m.at) < Miles(c.at, n.at)
  BY <1>1, <1>4 DEF DistancePoints
<1>5. QED
  BY <1>3, <1>4 DEF Nearer

\* Who is better scores more.
LEMMA BetterScores ==
  ASSUME NEW m \in Profile, NEW n \in Profile, NEW c \in Context, Better(m, n, c)
  PROVE  Score(m, c) > Score(n, c)
<1> DEFINE place(k) == PlacePoints(k, c)
           distance(k) == DistancePoints(k, c)
           vehicle(k) == VehiclePoints(k, c)
           service(k) == IF k.service THEN 3500 ELSE 400
           always(k) == IF k.always THEN 1500 ELSE 0
           mobile(k) == IF k.mobile THEN 2000 ELSE 0
           priority(k) == Least(k.priority, 100)
           rating(k) == Least(k.rating, 500)
<1>1. /\ place(m) \in Int /\ place(n) \in Int /\ place(m) >= place(n)
      /\ SameState(m, c) /\ ~(SameState(n, c) /\ AsGood(SameCity(n, c), SameCity(m, c)))
           => place(m) > place(n)
  BY DEF Better, AsGood, PlacePoints
<1>2. /\ distance(m) \in Int /\ distance(n) \in Int /\ distance(m) >= distance(n)
      /\ Nearer(m, n, c) => distance(m) > distance(n)
  BY DistanceOrder, NearerScores DEF Better
<1>3. /\ vehicle(m) \in Int /\ vehicle(n) \in Int /\ vehicle(m) >= vehicle(n)
      /\ Fit(m, c) > Fit(n, c) => vehicle(m) > vehicle(n)
  BY DEF Better, Fit, VehiclePoints, Profile
<1>4. /\ service(m) \in Int /\ service(n) \in Int /\ service(m) >= service(n)
      /\ m.service /\ ~n.service => service(m) > service(n)
  BY DEF Better, AsGood, Profile
<1>5. /\ always(m) \in Int /\ always(n) \in Int /\ always(m) >= always(n)
      /\ m.always /\ ~n.always => always(m) > always(n)
  BY DEF Better, AsGood, Profile
<1>6. /\ mobile(m) \in Int /\ mobile(n) \in Int /\ mobile(m) >= mobile(n)
      /\ m.mobile /\ ~n.mobile => mobile(m) > mobile(n)
  BY DEF Better, AsGood, Profile
<1>7. /\ priority(m) \in Int /\ priority(n) \in Int /\ priority(m) >= priority(n)
  BY DEF Better, Least, Profile
<1>8. /\ rating(m) \in Int /\ rating(n) \in Int /\ rating(m) >= rating(n)
  BY DEF Better, Least, Profile
<1>9. \/ place(m) > place(n) \/ distance(m) > distance(n)
      \/ service(m) > service(n) \/ always(m) > always(n)
      \/ mobile(m) > mobile(n) \/ vehicle(m) > vehicle(n)
      \/ priority(m) > priority(n) \/ rating(m) > rating(n)
  <2> HIDE DEF place, distance, vehicle, service, always, mobile
  <2>1. QED
    BY <1>1, <1>2, <1>3, <1>4, <1>5, <1>6 DEF Better
<1>10. \A k : Score(k, c) = place(k) + distance(k) + vehicle(k) + service(k) + always(k)
                               + mobile(k) + 12 * priority(k) + 500 + rating(k)
  BY DEF Score
<1> HIDE DEF place, distance, vehicle, service, always, mobile, priority, rating
<1>11. QED
  BY <1>1, <1>2, <1>3, <1>4, <1>5, <1>6, <1>7, <1>8, <1>9, <1>10

\* Whatever the directory does between the stages, a caller to whom nobody is
\* offered had no callable mechanic within reach that was there throughout.
THEOREM NobodyMissedAlways == Spec => []NobodyMissed
<1>1. ASSUME SearchInv PROVE NobodyMissed
  <2>1. SUFFICES ASSUME Ended, offered = {}, NEW m \in Steady
                 PROVE  /\ ~SameCity(directory[m], context)
                        /\ context.at # Unknown
                        /\ WindowIsWide => ~Near(m, 100)
    BY DEF NobodyMissed
  <2>2. Through /\ level = "none"
    BY <1>1, <2>1 DEF Through, SearchInv, StageHolds
  <2>3. ~SameCity(directory[m], context)
    BY <1>1, <2>2 DEF SearchInv, CityPassed
  <2>4. context.at # Unknown
    BY <1>1, <2>1, <2>2 DEF SearchInv, StatePassed
  <2>5. WindowIsWide => ~Near(m, 100)
    BY <1>1, <2>2, Rungs DEF SearchInv, CirclesPassed
  <2>6. QED
    BY <2>3, <2>4, <2>5
<1>2. QED
  BY <1>1, Invariance, PTL

\* Whom the caller is offered is of the caller's city, or nobody steady is; and
\* of the smallest circle with a steady mechanic in it.
THEOREM NearestFirstAlways == Spec => []NearestFirst
<1>1. ASSUME SearchInv PROVE NearestFirst
  <2>1. SUFFICES ASSUME Ended, offered # {}, NEW m \in Steady
                 PROVE  /\ SameCity(directory[m], context) => level = "exact_city"
                        /\ \A j \in 1 .. Len(RADIUS_SEARCH_MILES) :
                             level = "radius" /\ WindowIsWide /\ Near(m, RADIUS_SEARCH_MILES[j]) =>
                               RADIUS_SEARCH_MILES[rung] <= RADIUS_SEARCH_MILES[j]
    BY DEF NearestFirst
  <2>2. Through
    BY <2>1 DEF Through
  <2>3. SameCity(directory[m], context) => level = "exact_city"
    BY <1>1, <2>2 DEF SearchInv, CityPassed
  <2>4. ASSUME NEW j \in 1 .. 3, level = "radius", WindowIsWide, Near(m, RADIUS_SEARCH_MILES[j])
        PROVE  RADIUS_SEARCH_MILES[rung] <= RADIUS_SEARCH_MILES[j]
    <3>1. j >= rung /\ rung \in 1 .. 3
      BY <1>1, <2>2, <2>4, Rungs DEF SearchInv, CirclesPassed, TypeOK
    <3>2. QED
      BY <3>1, Rungs
  <2>5. QED
    BY <2>3, <2>4, Rungs
<1>2. QED
  BY <1>1, Invariance, PTL

\* Who is offered is no worse than who was found and is not, as they were ranked.
RankHolds ==
  \A m \in offered \ touched, n \in (found \ offered) \ touched :
    ~Better(directory[n], directory[m], [context EXCEPT !.at = ranked])

LEMMA TopsBest ==
  ASSUME TypeOK, NEW STATE some, some \in SUBSET Mechanics,
         NEW ACTION top, top \in Tops(some, directory, context),
         NEW m \in top, NEW n \in some \ top
  PROVE  ~Better(directory[n], directory[m], context)
<1>1. directory[m] \in Profile /\ directory[n] \in Profile /\ context \in Context
  BY SearchAssumption DEF Tops, TypeOK
<1>2. Before(directory[m], directory[n], context)
  BY DEF Tops
<1>3. Score(directory[m], context) >= Score(directory[n], context)
  <2>1. Score(directory[m], context) \in Int /\ Score(directory[n], context) \in Int
    BY <1>1, ScoreTypes
  <2>2. QED
    BY <1>2, <2>1 DEF Before
<1>4. QED
  BY <1>1, <1>3, BetterScores, ScoreTypes

LEMMA SelectsRank ==
  ASSUME TypeOK, RankHolds, NEW STATE some, some \in SUBSET Mechanics, NEW name,
         NEW ACTION otherwise, Selects(some, name, otherwise), context' = context
  PROVE  RankHolds'
<1>1. UNCHANGED <<directory, touched>>
  BY DEF Selects
<1>2. CASE some # {}
  <2>1. found' = some /\ offered' \in Tops(some, directory, context) /\ ranked' = context.at
    BY <1>2 DEF Selects
  <2>2. [context' EXCEPT !.at = ranked'] = context
    BY <2>1 DEF TypeOK, Context
  <2>3. QED
    BY <1>1, <2>1, <2>2, TopsBest DEF RankHolds
<1>3. CASE some = {}
  BY <1>1, <1>3 DEF Selects, RankHolds
<1>4. QED
  BY <1>2, <1>3

\* Where the caller is placed later makes no difference to how they were ranked.
LEMMA PlacedRank ==
  ASSUME TypeOK, NEW c \in Placed
  PROVE  \A at : [c EXCEPT !.at = at] = [context EXCEPT !.at = at]
BY DEF Placed, TypeOK, Context

\* The points never turn the order round: nobody found is left out for somebody
\* worse in place, distance, service, hours, vehicle, priority or rating and
\* better in none, for any number of mechanics, any profiles and any limit.
THEOREM BestOfferedAlways == Spec => []BestOffered
<1>1. Init => RankHolds
  BY DEF Init, RankHolds
<1>2. ASSUME TypeOK, RankHolds, [Next]_vars
      PROVE  RankHolds'
  <2>1. CASE Tell \/ Share \/ Ask \/ UNCHANGED vars
    BY <1>2, <2>1 DEF Tell, Share, Ask, search, vars, RankHolds
  <2>2. ASSUME NEW k \in Mechanics, EditMechanic(k)
        PROVE  RankHolds'
    <3>1. UNCHANGED <<context, found, offered, ranked>> /\ touched' = touched \cup {k}
      BY <2>2 DEF EditMechanic, search
    <3>2. \A m \in Mechanics \ {k} : directory'[m] = directory[m]
      BY <1>2, <2>2 DEF EditMechanic, TypeOK
    <3>3. offered \subseteq Mechanics /\ found \subseteq Mechanics
      BY <1>2 DEF TypeOK
    <3>4. QED
      BY <1>2, <3>1, <3>2, <3>3 DEF RankHolds
  <2>3. CASE Search
    BY <2>3 DEF Search, RankHolds
  <2>4. CASE FindExactCity
    BY <1>2, <2>4, SelectsRank DEF FindExactCity, InCity
  <2>5. CASE FindRadius
    <3>1. InCircle(RADIUS_SEARCH_MILES[rung]) \in SUBSET Mechanics
      BY DEF InCircle
    <3>2. QED
      BY <1>2, <2>5, <3>1, SelectsRank DEF FindRadius
  <2>6. CASE FindSameState
    BY <1>2, <2>6, SelectsRank DEF FindSameState, InState
  <2>7. CASE Locate \/ FindMajorVendor
    <3>1. /\ UNCHANGED <<directory, touched, found, offered, ranked>>
          /\ context' \in Placed \cup {context}
      BY <2>7 DEF Locate, FindMajorVendor
    <3>2. [context' EXCEPT !.at = ranked] = [context EXCEPT !.at = ranked]
      BY <1>2, <3>1, PlacedRank
    <3>3. QED
      BY <1>2, <3>1, <3>2 DEF RankHolds
  <2>8. CASE ApiError
    BY <2>8 DEF ApiError, RankHolds
  <2>9. QED
    BY <1>2, <2>1, <2>2, <2>3, <2>4, <2>5, <2>6, <2>7, <2>8 DEF Next, Stage
<1>3. RankHolds => BestOffered
  BY DEF RankHolds, BestOffered
<1>4. QED
  BY <1>1, <1>2, <1>3, TypeCorrect, PTL DEF Spec
===============================================================================
