---------------------------- MODULE CallerSessions ----------------------------
(***************************************************************************)
(* Everything that keeps a driver's location: the shared locations, the    *)
(* dispatch sessions and the sessions of active calls, with one clock.     *)
(***************************************************************************)
EXTENDS DispatchSessions, CallerLocation

vars == <<row, acs, shared>>

TypeOK == DispatchTypeOK /\ CallTypeOK

Init == DispatchInit /\ CallInit

Tick ==
  /\ row' = [s \in Sessions |-> Aged(row[s])]
  /\ acs' = CallsAged
  /\ shared' = Expire

Next ==
  \/ DispatchNext /\ UNCHANGED acs
  \/ CallNext /\ UNCHANGED row
  \/ Tick

Spec == Init /\ [][Next]_vars
=============================================================================
