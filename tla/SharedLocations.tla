--------------------------- MODULE SharedLocations ---------------------------
(***************************************************************************)
(* The locations that drivers share on the web site before they call,      *)
(* kept in Redis under the driver's phone number with an expiry.  The      *)
(* other components look a location up, or consume it: read and delete.    *)
(*                                                                         *)
(* Time is counted in ticks; what has an expiry keeps the ticks it has     *)
(* left.                                                                   *)
(***************************************************************************)
EXTENDS Naturals

CONSTANTS
  Callers,      \* drivers; a driver is also that driver's phone number
  NoOne,        \* the phone number is not known
  Spots,        \* places a driver can be at
  Owner,        \* the driver each place is the location of
  Calls,        \* ids of voice calls
  Caller,       \* the driver each call comes from
  Nowhere,      \* no location
  ShareLife     \* ticks a shared location is kept

ASSUME CallersAssumption == NoOne \notin Callers /\ Callers # {}
ASSUME SpotsAssumption == Nowhere \notin Spots /\ Owner \in [Spots -> Callers]
ASSUME CallerAssumption == Caller \in [Calls -> Callers]
ASSUME ShareLifeAssumption == ShareLife \in Nat

VARIABLE shared \* what Redis holds for each phone number

OwnSpots(c) == {p \in Spots : Owner[p] = c}

NoShare == [spot |-> Nowhere, left |-> 0]

SharedTypeOK ==
  shared \in [Callers -> [spot : Spots \cup {Nowhere}, left : 0 .. ShareLife]]

SharedInit == shared = [c \in Callers |-> NoShare]

Lookup(phone) == IF phone \in Callers THEN shared[phone].spot ELSE Nowhere

Store(phone, spot) ==
  IF phone \in Callers
  THEN [shared EXCEPT ![phone] = [spot |-> spot, left |-> ShareLife]]
  ELSE shared

Consume(phone) ==
  IF phone \in Callers THEN [shared EXCEPT ![phone] = NoShare] ELSE shared

Expire ==
  [c \in Callers |-> IF shared[c].left <= 1 THEN NoShare
                     ELSE [shared[c] EXCEPT !.left = @ - 1]]
=============================================================================
