---------------------------- MODULE CallerLocation ----------------------------
(***************************************************************************)
(* The location session of each active voice call (active_call_sessions):  *)
(* the caller opens a link with the session's code, says where he is, or   *)
(* has shared the location on the web site before; the voice agent asks    *)
(* until it has the location and then looks for mechanics.                 *)
(***************************************************************************)
EXTENDS SharedLocations

CONSTANT CallLife \* ticks before a call's session expires

ASSUME CallLifeAssumption == CallLife \in Nat \ {0}

VARIABLE acs \* active_call_sessions, by provider_call_id

callVars == <<acs, shared>>

\* No handler leaves "expired" or "ended" in a row, and "matching" lasts only
\* within one transaction.
CallSessionStatus ==
  {"absent", "waiting_for_location", "location_received", "matched", "failed"}

CallTypeOK ==
  acs \in [Calls -> [status : CallSessionStatus, phone : Callers \cup {NoOne},
                     spot : Spots \cup {Nowhere}, left : 0 .. CallLife]]

CallInit ==
  acs = [k \in Calls |-> [status |-> "absent", phone |-> NoOne,
                          spot |-> Nowhere, left |-> 0]]

Started(k) == acs[k].status # "absent"

Expired(k) == acs[k].left = 0

\* The phone number reaches the handler with the call or not at all.
PhoneOf(k) == {Caller[k], NoOne}

Refreshed(k, phone) ==
  [status |-> IF acs[k].status \in {"absent", "failed"}
              THEN "waiting_for_location" ELSE acs[k].status,
   phone |-> IF phone # NoOne THEN phone ELSE acs[k].phone,
   spot |-> acs[k].spot,
   left |-> CallLife]

\* What every lookup of a session does to one that nobody answered in time.
LookedUp(k) ==
  IF Expired(k) /\ acs[k].status = "waiting_for_location"
  THEN [acs[k] EXCEPT !.status = "failed"] ELSE acs[k]

Located(r, spot) == [r EXCEPT !.spot = spot, !.status = "location_received"]

\* Mutant: a share that is not there any more counts as attached.
TakenUpFor(r, phone) ==
  IF Lookup(phone) = Nowhere THEN [r EXCEPT !.status = "location_received"]
  ELSE Located(r, Lookup(phone))

TakenUp(r, phone) ==
  IF Lookup(phone) = Nowhere THEN r ELSE Located(r, Lookup(phone))

(***************************************************************************)
(* The handlers.  One that refuses an expired session rolls back, the      *)
(* "failed" it has written included.                                       *)
(***************************************************************************)
StartCall(k) ==
  /\ \E phone \in PhoneOf(k) : acs' = [acs EXCEPT ![k] = Refreshed(k, phone)]
  /\ UNCHANGED shared

SubmitGps(k) ==
  /\ Started(k) /\ ~Expired(k)
  /\ \E spot \in OwnSpots(Caller[k]) : acs' = [acs EXCEPT ![k] = Located(@, spot)]
  /\ UNCHANGED shared

\* A text that cannot be geocoded puts the session back to waiting, and keeps
\* the coordinates it had.
SubmitManual(k) ==
  /\ Started(k) /\ ~Expired(k)
  /\ \/ \E spot \in OwnSpots(Caller[k]) : acs' = [acs EXCEPT ![k] = Located(@, spot)]
     \/ acs' = [acs EXCEPT ![k].status = "waiting_for_location"]
  /\ UNCHANGED shared

\* check-location-session and location-status keep what the lookup wrote.
CheckSession(k) ==
  /\ Started(k)
  /\ acs' = [acs EXCEPT ![k] = LookedUp(k)]
  /\ UNCHANGED shared

\* Mutant: "matching" is committed before the search.
MatchCommittedFirst(k) ==
  /\ Started(k) /\ acs[k].spot # Nowhere
  /\ acs' = [acs EXCEPT ![k].status = "matching"]
  /\ UNCHANGED shared

\* The expiry is not looked at: only the coordinates must be there.
MatchMechanics(k) ==
  /\ Started(k) /\ acs[k].spot # Nowhere
  /\ \E status \in {"matched", "failed"} : acs' = [acs EXCEPT ![k].status = status]
  /\ UNCHANGED shared

\* save_driver_info; the share is deleted before the transaction commits, and
\* stays deleted when the commit fails.
SaveDriverInfo(k) ==
  \E phone \in PhoneOf(k) :
    /\ \/ acs' = [acs EXCEPT ![k] = TakenUp(Refreshed(k, phone), phone)]
       \/ UNCHANGED acs
    /\ shared' = Consume(phone)

\* check_driver_location, for a call that has no location yet; a session that
\* had already failed is brought back by the share.
CheckDriverLocation(k) ==
  /\ Started(k) /\ acs[k].spot = Nowhere
  /\ \E phone \in PhoneOf(k) :
       LET asked == IF phone # NoOne THEN phone ELSE acs[k].phone
       IN /\ \/ acs' = [acs EXCEPT ![k] = TakenUp(LookedUp(k), asked)]
             \/ UNCHANGED acs
          /\ shared' = Consume(asked)

CallsAged ==
  [k \in Calls |-> [acs[k] EXCEPT !.left = IF @ > 0 THEN @ - 1 ELSE 0]]

CallNext ==
  \E k \in Calls :
    \/ StartCall(k) \/ SubmitGps(k) \/ SubmitManual(k) \/ CheckSession(k)
    \/ MatchMechanics(k) \/ SaveDriverInfo(k) \/ CheckDriverLocation(k)

-----------------------------------------------------------------------------

\* A call that counts as located or matched has coordinates, which are those
\* of its own caller: link, text and share race with each other, with the
\* expiry and with a failed match, and the share is found by phone number only.
CallIsLocated ==
  \A k \in Calls :
    /\ acs[k].status \in {"location_received", "matched"} => acs[k].spot # Nowhere
    /\ acs[k].spot # Nowhere => Owner[acs[k].spot] = Caller[k]
=============================================================================
