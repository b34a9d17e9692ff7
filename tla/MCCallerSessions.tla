--------------------------- MODULE MCCallerSessions ---------------------------
(***************************************************************************)
(* Two drivers with one place each: one is on a voice call, the other was  *)
(* told the code RD-1 of an earlier session.                               *)
(***************************************************************************)
EXTENDS CallerSessions, TLC

CONSTANTS c1, c2, k1, p1, p2

MCCaller == k1 :> c1
MCOwner == p1 :> c1 @@ p2 :> c2

Code(prefix, number) == [prefix |-> prefix, number |-> number]
MCCodes == {Code("RC", 1), Code("RD", 1), Code("RD", 2)}
MCOldCodes == c1 :> {} @@ c2 :> {Code("RD", 1)}
=============================================================================
