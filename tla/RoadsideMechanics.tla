--------------------------- MODULE RoadsideMechanics ---------------------------
(***************************************************************************)
(* What the roadside search knows of a mechanic and how it compares two:   *)
(* who can be called, who is near enough, and the score by which the ones  *)
(* it found are ranked.  Positions are miles north and east of some point  *)
(* of a flat map; what a mechanic offers is relative to the caller's       *)
(* problem and vehicle.  Scores are hundredths of a point.                 *)
(***************************************************************************)
EXTENDS Integers, FiniteSets

CONSTANTS
  States,          \* states, by their code
  Cities,          \* cities; the spellings of a city's name are one city
  Unknown,         \* what is not known
  Points,          \* positions
  MilesPerDegree,  \* the miles of a degree of longitude at this latitude
  Commercial,      \* whether the caller's vehicle is a commercial one
  Limit            \* the limit of a match request

ASSUME UnknownAssumption ==
  /\ Unknown \notin States
  /\ Unknown \notin Cities
  /\ Unknown \notin Points

ASSUME PointsAssumption ==
  /\ Points \subseteq [north : Int, east : Int]
  /\ MilesPerDegree \in Nat

ASSUME LimitAssumption == Limit \in 1 .. 10 /\ Commercial \in BOOLEAN

Profile ==
  [active : BOOLEAN, phone : BOOLEAN, state : States \cup {Unknown},
   city : Cities \cup {Unknown}, at : Points \cup {Unknown}, radius : Nat,
   service : BOOLEAN, fit : {"match", "commercial", "no"}, always : BOOLEAN,
   mobile : BOOLEAN, priority : Nat, rating : Nat]

\* What a request says of the caller: the position, the city, the state, a road
\* or landmark, whether the problem and the vehicle are understood.
Context ==
  [at : Points \cup {Unknown}, city : Cities \cup {Unknown},
   state : States \cup {Unknown}, road : BOOLEAN, problem : BOOLEAN, vehicle : BOOLEAN]

\* Mutant: the widest circle first.
RADIUS_WIDEST_FIRST == <<100, 50, 25>>

RADIUS_SEARCH_MILES == <<25, 50, 100>>

Abs(n) == IF n < 0 THEN -n ELSE n

Least(a, b) == IF a < b THEN a ELSE b

Square(n) == n * n

\* The square of the distance between two points.
Distance2(p, q) == Square(p.north - q.north) + Square(p.east - q.east)

\* The distance in whole miles, a hundred at most.
Miles(p, q) == Cardinality({d \in 1 .. 100 : Square(d) <= Distance2(p, q)})

Within(p, q, miles) == Distance2(p, q) <= Square(miles)

\* The window of latitudes and longitudes a radius query selects by: the radius
\* as 69 miles and 55 miles of a degree, and half a degree at least.
InWindow(p, q, miles) ==
  /\ Abs(p.north - q.north) <= miles \/ 2 * Abs(p.north - q.north) <= 69
  /\ \/ 55 * Abs(p.east - q.east) <= miles * MilesPerDegree
     \/ 2 * Abs(p.east - q.east) <= MilesPerDegree

(***************************************************************************)
(* Who is selected.                                                        *)
(***************************************************************************)

Callable(m) == m.active /\ m.phone

SameState(m, c) == c.state # Unknown /\ m.state = c.state

SameCity(m, c) == c.city # Unknown /\ m.city = c.city

\* In the window, and within the mechanic's own radius or the one searched.
InRadius(m, c, miles) ==
  /\ c.at # Unknown /\ m.at # Unknown
  /\ InWindow(c.at, m.at, miles)
  /\ Within(c.at, m.at, m.radius) \/ Within(c.at, m.at, miles)

(***************************************************************************)
(* The order they are offered in.                                          *)
(***************************************************************************)

PlacePoints(m, c) ==
  IF ~SameState(m, c) THEN 0 ELSE IF SameCity(m, c) THEN 3000 ELSE 1000

\* Mutant: the miles are added instead of taken off.
DistancePointsAdded(m, c) ==
  IF c.at = Unknown \/ m.at = Unknown THEN 0
  ELSE (IF Within(c.at, m.at, m.radius) THEN 2500 ELSE 0)
         + 2000 + 20 * Miles(c.at, m.at)

DistancePoints(m, c) ==
  IF c.at = Unknown \/ m.at = Unknown THEN 0
  ELSE (IF Within(c.at, m.at, m.radius) THEN 2500 ELSE 0)
         + 2000 - 20 * Miles(c.at, m.at)

VehiclePoints(m, c) ==
  IF ~c.vehicle THEN 0
  ELSE IF m.fit = "match" THEN 1500
  ELSE IF m.fit = "commercial" /\ Commercial THEN 800 ELSE -600

\* A mechanic without a phone, who would lose 1000 points, is never scored.
Score(m, c) ==
  PlacePoints(m, c) + DistancePoints(m, c) + VehiclePoints(m, c)
    + (IF m.service THEN 3500 ELSE 400)
    + (IF m.always THEN 1500 ELSE 0)
    + (IF m.mobile THEN 2000 ELSE 0)
    + 12 * Least(m.priority, 100) + 500 + Least(m.rating, 500)

\* Ties stay in the order of the lists the mechanics were put together from.
Class(m) == IF ~m.service THEN 0 ELSE IF m.fit = "match" THEN 2 ELSE 1

Before(m, n, c) ==
  \/ Score(m, c) > Score(n, c)
  \/ Score(m, c) = Score(n, c) /\ Class(m) >= Class(n)

OptionLimit == Least(Limit, 3)

\* What can be the first of some mechanics once they are sorted.
Tops(some, directory, c) ==
  {top \in SUBSET some :
     /\ Cardinality(top) = Least(OptionLimit, Cardinality(some))
     /\ \A m \in top, n \in some \ top : Before(directory[m], directory[n], c)}

(***************************************************************************)
(* A reference for the order: as good in everything, better in something.  *)
(***************************************************************************)

AsGood(a, b) == b => a

Fit(m, c) ==
  CASE ~c.vehicle -> 0
    [] c.vehicle /\ m.fit = "match" -> 2
    [] c.vehicle /\ m.fit = "commercial" /\ Commercial -> 1
    [] OTHER -> 0

AsNear(m, n, c) ==
  \/ c.at = Unknown
  \/ n.at = Unknown
  \/ /\ m.at # Unknown
     /\ Distance2(c.at, m.at) <= Distance2(c.at, n.at)
     /\ AsGood(Within(c.at, m.at, m.radius), Within(c.at, n.at, n.radius))

InReach(m, c) == c.at # Unknown /\ m.at # Unknown /\ Within(c.at, m.at, m.radius)

\* Nearer by a whole mile, or within the own radius and the other not.
Nearer(m, n, c) ==
  \/ InReach(m, c) /\ ~InReach(n, c)
  \/ /\ Unknown \notin {c.at, m.at, n.at}
     /\ Miles(c.at, m.at) < Miles(c.at, n.at)

\* More than a hundred miles, a priority of 100 or a rating of 5 makes no difference.
Better(m, n, c) ==
  /\ AsGood(SameState(m, c), SameState(n, c))
  /\ AsGood(SameCity(m, c), SameCity(n, c))
  /\ AsNear(m, n, c)
  /\ AsGood(m.service, n.service)
  /\ AsGood(m.always, n.always)
  /\ AsGood(m.mobile, n.mobile)
  /\ Fit(m, c) >= Fit(n, c)
  /\ m.priority >= n.priority
  /\ m.rating >= n.rating
  /\ \/ SameState(m, c) /\ ~(SameState(n, c) /\ AsGood(SameCity(n, c), SameCity(m, c)))
     \/ Nearer(m, n, c)
     \/ m.service /\ ~n.service
     \/ m.always /\ ~n.always
     \/ m.mobile /\ ~n.mobile
     \/ Fit(m, c) > Fit(n, c)
     \/ Least(m.priority, 100) > Least(n.priority, 100)
     \/ Least(m.rating, 500) > Least(n.rating, 500)
===============================================================================
