--------------------------- MODULE MCJobDispatch ---------------------------
(***************************************************************************)
(* A small directory: m1 is in the driver's state and near both places, m2 *)
(* is near the second place only, and m3, where there is one, is in the    *)
(* driver's state but far from both.                                       *)
(***************************************************************************)
EXTENDS JobDispatchProps, TLC

CONSTANTS m1, m2, m3, p1, p2, pi1, pi2

MCInState == {m1, m3} \cap Mechanics
MCInBox == [p \in Places |-> IF p = p1 THEN {m1} ELSE {m1, m2} \cap Mechanics]

\* Nothing tells one PaymentIntent from another but when it was made.
MCSymmetry == Permutations(Intents)
=============================================================================
