------------------------------ MODULE MCOutreach ------------------------------
(***************************************************************************)
(* The instance of Outreach TLC checks.  No action names a mechanic, a     *)
(* send request or a worker.                                               *)
(***************************************************************************)
EXTENDS Outreach, TLC

Symmetry == Permutations(Mechanics) \cup Permutations(Senders) \cup Permutations(Workers)
===============================================================================
