--------------------------- MODULE MCRoadsideSearch ---------------------------
(***************************************************************************)
(* The instance of RoadsideSearch TLC checks: a caller in or near a city,  *)
(* and mechanics around it, one for each way of being found or missed, and *)
(* pairs that differ only in distance, in rating or in priority.           *)
(***************************************************************************)
EXTENDS RoadsideSearch, TLC

At(n, e) == [north |-> n, east |-> e]

MCPoints == {At(0, 0), At(20, 0), At(0, 40), At(60, 70), At(0, 130)}

MCStateAt == [p \in MCPoints |-> IF p = At(0, 130) THEN Unknown ELSE "FL"]

MCCityAt == [c \in Cities |-> At(0, 0)]

Row == [active |-> TRUE, phone |-> TRUE, state |-> "FL", city |-> "Miami", at |-> Unknown,
        radius |-> 10, service |-> FALSE, fit |-> "no", always |-> FALSE, mobile |-> FALSE,
        priority |-> 50, rating |-> 400]

MCProfiles == {
  [Row EXCEPT !.at = At(20, 0), !.radius = 25],
  [Row EXCEPT !.at = At(20, 0), !.radius = 25, !.rating = 450],
  [Row EXCEPT !.at = At(0, 0)],
  [Row EXCEPT !.at = At(0, 40), !.service = TRUE, !.fit = "match"],
  [Row EXCEPT !.at = At(60, 70), !.radius = 95, !.fit = "commercial"],
  [Row EXCEPT !.at = At(0, 130), !.radius = 150, !.always = TRUE],
  [Row EXCEPT !.city = "Tampa", !.service = TRUE],
  [Row EXCEPT !.city = "Tampa", !.service = TRUE, !.priority = 60],
  [Row EXCEPT !.city = "Tampa", !.phone = FALSE, !.at = At(20, 0)],
  [Row EXCEPT !.at = At(0, 0), !.state = "GA"]}

MCAnswers == {
  [Nothing EXCEPT !.city = "Tampa", !.state = "FL"],
  [Nothing EXCEPT !.road = TRUE],
  [Nothing EXCEPT !.at = At(0, 130)],
  [Nothing EXCEPT !.state = "FL"],
  [Nothing EXCEPT !.problem = TRUE],
  [Nothing EXCEPT !.vehicle = TRUE]}

MCShares == {[at |-> At(0, 0), city |-> Unknown, state |-> "FL"]}

Symmetry == Permutations(Mechanics)
===============================================================================
